---- MODULE Spec2Model ----
(***************************************************************************)
(* Model of the x_content scoring-and-comparison engine.                   *)
(*                                                                         *)
(* Number representation (Python floats are modelled as exact decimals):   *)
(*   - a signal probability p is the integer p * 10^4 (0.20 is 2000);      *)
(*   - a ranking weight w is the integer w * 10 (27.0 is 270);             *)
(*   - an unrounded weighted score is therefore in units of 10^-5;         *)
(*   - a weighted score rounded with round(x, 2) is in hundredths;         *)
(*   - char_utilization and the reported delta_pct, both rounded with      *)
(*     round(x, 1), are in tenths of a percent;                            *)
(*   - an unrounded delta_pct is the fraction n / d with d > 0.            *)
(***************************************************************************)
EXTENDS Integers, FiniteSets, Sequences, TLC

VARIABLES
    pc,          \* position of the running operation
    entry,       \* which entry point runs: optimize, optimize_preserve_style, refine_tweet
    max_chars,   \* config.get("optimization")["max_chars"]
    analysis,    \* feature dictionary returned by analyze
    signals,     \* original_scores = score_tweet(analysis)
    report,      \* original_report = full_score_report(analysis)
    supplied,    \* the variation exactly as the external generator returned it (history)
    variation,   \* the variation dictionary var, mutated in place by the fill-in step
    warnings,    \* the list returned by validate_variation (as a set of warnings)
    comparison,  \* comp = comparison_report(...) or None
    raised,      \* the exception that left the operation, "none" when none did
    weighted,    \* the value the last call of compute_weighted_score returned
    original,    \* compute_delta: argument original
    optimized,   \* compute_delta: argument optimized
    delta,       \* compute_delta: result
    text,        \* analyze: argument text, a sequence of characters
    cli          \* the command-line session: arguments, position, calls made

vars == <<pc, entry, max_chars, analysis, signals, report, supplied, variation,
          warnings, comparison, raised, weighted, original, optimized, delta,
          text, cli>>

\* Python's None
None == [none |-> TRUE]

-----------------------------------------------------------------------------
(* Bounds of the model *)

MaxPowerWords == 4
MaxQuestions == 4

\* how many times a session shows the interactive menu
MaxMenuRounds == 3

\* how many lines standard input holds before it ends
MaxLines == 2

\* how many calls of load_config and get a run makes
MaxConfigCalls == 3

\* representative text lengths: both sides of every threshold score_tweet tests
CharCounts == {41, 42, 101, 141, 169, 197, 200}
HashtagCounts == {0, 4, 6}
CtaCounts == {0, 1, 3}
LineCounts == {1, 3, 4}
EmojiCounts == {0, 1}
MaxCharsValues == {280}

-----------------------------------------------------------------------------
(* Signal catalog *)

\* ACTIONS (a reserved word of TLA+, hence the spelling)
Actions ==
    {"favorite_score", "reply_score", "repost_score", "photo_expand_score",
     "click_score", "profile_click_score", "vqv_score", "share_score",
     "share_via_dm_score", "share_via_copy_link_score", "dwell_score",
     "quote_score", "quoted_click_score", "follow_author_score", "dwell_time",
     "not_interested_score", "block_author_score", "mute_author_score",
     "report_score"}

NEGATIVE_ACTIONS ==
    {"not_interested_score", "block_author_score", "mute_author_score",
     "report_score"}

\* weights in tenths
ACTION_WEIGHTS ==
    [favorite_score |-> 10, reply_score |-> 270, repost_score |-> 100,
     photo_expand_score |-> 3, click_score |-> 3, profile_click_score |-> 20,
     vqv_score |-> 2, share_score |-> 10, share_via_dm_score |-> 1000,
     share_via_copy_link_score |-> 50, dwell_score |-> 20, quote_score |-> 400,
     quoted_click_score |-> 5, follow_author_score |-> 100, dwell_time |-> 8,
     not_interested_score |-> -740, block_author_score |-> -3710,
     mute_author_score |-> -740, report_score |-> -92090]

-----------------------------------------------------------------------------
(* Arithmetic helpers *)

Min(a, b) == IF a < b THEN a ELSE b
Max(a, b) == IF a > b THEN a ELSE b

\* dict.get(key, default)
Get(d, key, default) == IF key \in DOMAIN d THEN d[key] ELSE default

\* round(n / d, k) for d > 0, as an integer count of 10^-k units when n is
\* given in those units: nearest integer to n / d, a tie going to the even one
RoundHalfEven(n, d) ==
    LET q == n \div d
        r == n % d
    IN  IF 2 * r < d THEN q
        ELSE IF 2 * r > d THEN q + 1
        ELSE IF q % 2 = 0 THEN q ELSE q + 1

RECURSIVE SumOver(_, _)
SumOver(S, f) ==
    IF S = {} THEN 0
    ELSE LET a == CHOOSE x \in S : TRUE
         IN  f[a] + SumOver(S \ {a}, f)

-----------------------------------------------------------------------------
(* Structural features: the dictionary analyze returns, restricted to the  *)
(* keys the scorer reads.  m holds the quantities analyze measured on the   *)
(* text; maxChars is the configured maximum.                                *)

FeatureDict(m, maxChars) ==
    [char_count |-> m.char_count,
     char_utilization |-> RoundHalfEven(m.char_count * 1000, maxChars),
     line_count |-> m.line_count,
     has_hook |-> m.has_hook,
     has_question |-> m.questions > 0,
     question_count |-> m.questions,
     hashtag_count |-> m.hashtags,
     has_url |-> m.has_url,
     has_media |-> m.has_media,
     has_cta |-> m.cta_matches > 0,
     cta_count |-> m.cta_matches,
     power_word_count |-> m.found_power,
     has_numbers |-> m.has_numbers,
     has_list_format |-> m.has_list,
     emoji_count |-> m.emoji_count]

\* the measurements the model draws its texts from
Measurements ==
    [char_count : CharCounts, line_count : LineCounts, has_hook : BOOLEAN,
     questions : 0..MaxQuestions, hashtags : HashtagCounts, has_url : BOOLEAN,
     has_media : BOOLEAN, cta_matches : CtaCounts,
     found_power : 0..MaxPowerWords, has_numbers : BOOLEAN,
     has_list : BOOLEAN, emoji_count : EmojiCounts]

\* A text with these measurements exists: every counted item fits in
\* char_count characters (a power word with its separator takes at most 6
\* characters, a CTA word 5, a hashtag 3, a URL 9, a line 2 and a list marker
\* 1), a first line without a hook has at least 60 characters, and a list
\* needs two lines.
Realizable(m) ==
    /\ (m.has_list => m.line_count >= 2)
    /\ 6 * m.found_power + 5 * m.cta_matches + 3 * m.hashtags + m.questions
         + m.emoji_count + 2 * m.line_count
         + (IF m.has_url THEN 9 ELSE 0) + (IF m.has_numbers THEN 2 ELSE 0)
         + (IF m.has_list THEN 2 ELSE 0) + (IF m.has_hook THEN 0 ELSE 60)
       <= m.char_count

-----------------------------------------------------------------------------
(* Heuristic signal estimator *)

_clamp(v) == Max(0, Min(10000, v))

\* "if cond: base += amount"
Bonus(cond, amount) == IF cond THEN amount ELSE 0

score_tweet_body(a) ==
    [favorite_score |->
        _clamp(2000
               + Bonus(a.power_word_count > 0, Min(a.power_word_count * 800, 2500))
               + Bonus(a.has_question, 500)
               + Bonus(a.emoji_count > 0, 500)
               + Bonus(a.char_utilization > 500, 1000)
               + Bonus(a.has_media, 1000)),
     reply_score |->
        _clamp(1000
               + Bonus(a.has_question, 1500 * Min(a.question_count, 3))
               + Bonus(a.has_cta, 1000)
               + Bonus(a.power_word_count > 0, 800)
               + Bonus(a.line_count >= 3, 500)),
     repost_score |->
        _clamp(1500
               + Bonus(a.has_numbers, 1200)
               + Bonus(a.power_word_count >= 2, 1000)
               + Bonus(100 < a.char_count /\ a.char_count < 200, 800)
               + Bonus(a.has_list_format, 500)),
     photo_expand_score |->
        _clamp(500 + Bonus(a.has_media, 5000)),
     click_score |->
        _clamp(500
               + Bonus(a.has_url, 3500)
               + Bonus(a.power_word_count > 0 /\ a.has_url, 1000)),
     profile_click_score |->
        _clamp(1000
               + Bonus(a.power_word_count >= 2, 1000)
               + Bonus(a.has_numbers, 800)
               + Bonus(a.char_utilization > 600, 500)),
     vqv_score |->
        _clamp(200 + Bonus(a.has_media, 1500)),
     share_score |->
        _clamp(1000
               + Bonus(a.has_list_format, 1500)
               + Bonus(a.has_numbers, 1000)
               + Bonus(a.power_word_count > 0, 500)
               + Bonus(a.char_utilization > 500, 500)),
     share_via_dm_score |->
        _clamp(500
               + Bonus(a.power_word_count >= 2, 1200)
               + Bonus(a.has_numbers, 800)
               + Bonus(a.has_question /\ a.power_word_count > 0, 1000)
               + Bonus(a.char_utilization > 600, 500)),
     share_via_copy_link_score |->
        _clamp(500
               + Bonus(a.has_list_format, 1200)
               + Bonus(a.has_numbers, 800)
               + Bonus(a.char_utilization > 700, 500)),
     dwell_score |->
        _clamp(1500
               + Bonus(a.has_hook, 1500)
               + Bonus(a.line_count >= 3, 1000)
               + Bonus(a.char_utilization > 500, 1000)),
     quote_score |->
        _clamp(800
               + Bonus(a.power_word_count >= 2, 1200)
               + Bonus(a.has_numbers, 800)
               + Bonus(a.has_question, 500)),
     quoted_click_score |-> 500,
     follow_author_score |->
        _clamp(800
               + Bonus(a.has_numbers, 800)
               + Bonus(a.power_word_count >= 2, 800)
               + Bonus(a.char_utilization > 600, 500)),
     not_interested_score |->
        _clamp(1000
               + Bonus(a.hashtag_count > 3, 1500)
               + Bonus(a.char_utilization < 150, 1000)
               + Bonus(a.cta_count > 2, 800)),
     block_author_score |->
        _clamp(300 + Bonus(a.hashtag_count > 5, 500)),
     mute_author_score |->
        _clamp(500 + Bonus(a.hashtag_count > 3, 500)),
     report_score |-> 200,
     dwell_time |->
        _clamp(1500
               + Bonus(a.line_count >= 4, 1500)
               + Bonus(a.char_utilization > 600, 1500)
               + Bonus(a.has_hook, 1000)
               + Bonus(a.has_list_format, 1000))]

\* a slip of scale: the constant quoted_click_score written as a percentage
score_tweet_percent(a) ==
    [score_tweet_body(a) EXCEPT !.quoted_click_score = 50000]

\* reply's question bonus counted for every question mark, the cap at 3 lost
score_tweet_uncapped(a) ==
    [score_tweet_body(a) EXCEPT
        !.reply_score =
            _clamp(1000
                   + Bonus(a.has_question, 1500 * a.question_count)
                   + Bonus(a.has_cta, 1000)
                   + Bonus(a.power_word_count > 0, 800)
                   + Bonus(a.line_count >= 3, 500))]

\* the report probability left out of the estimate
score_tweet_no_report(a) == [score_tweet_body(a) EXCEPT !.report_score = 0]

\* photo_expand without a base: 0 for a text without media
score_tweet_photo_needs_media(a) ==
    [score_tweet_body(a) EXCEPT !.photo_expand_score = _clamp(Bonus(a.has_media, 5500))]

score_tweet(a) == score_tweet_body(a)

-----------------------------------------------------------------------------
(* Weighted aggregator *)

\* the doubling of a negative sum forgotten
compute_weighted_score_no_penalty(sig, has_media) ==
    sig.favorite_score * ACTION_WEIGHTS.favorite_score
    + sig.reply_score * ACTION_WEIGHTS.reply_score
    + sig.repost_score * ACTION_WEIGHTS.repost_score
    + sig.photo_expand_score * ACTION_WEIGHTS.photo_expand_score
    + sig.click_score * ACTION_WEIGHTS.click_score
    + sig.profile_click_score * ACTION_WEIGHTS.profile_click_score
    + sig.vqv_score * ACTION_WEIGHTS.vqv_score
    + sig.share_score * ACTION_WEIGHTS.share_score
    + sig.share_via_dm_score * ACTION_WEIGHTS.share_via_dm_score
    + sig.share_via_copy_link_score * ACTION_WEIGHTS.share_via_copy_link_score
    + sig.dwell_score * ACTION_WEIGHTS.dwell_score
    + sig.quote_score * ACTION_WEIGHTS.quote_score
    + sig.quoted_click_score * ACTION_WEIGHTS.quoted_click_score
    + sig.follow_author_score * ACTION_WEIGHTS.follow_author_score
    + sig.dwell_time * ACTION_WEIGHTS.dwell_time
    + sig.not_interested_score * ACTION_WEIGHTS.not_interested_score
    + sig.block_author_score * ACTION_WEIGHTS.block_author_score
    + sig.mute_author_score * ACTION_WEIGHTS.mute_author_score
    + sig.report_score * ACTION_WEIGHTS.report_score

\* has_media is accepted and not used in the reduction
compute_weighted_score(sig, has_media) ==
    LET combined ==
            sig.favorite_score * ACTION_WEIGHTS.favorite_score
            + sig.reply_score * ACTION_WEIGHTS.reply_score
            + sig.repost_score * ACTION_WEIGHTS.repost_score
            + sig.photo_expand_score * ACTION_WEIGHTS.photo_expand_score
            + sig.click_score * ACTION_WEIGHTS.click_score
            + sig.profile_click_score * ACTION_WEIGHTS.profile_click_score
            + sig.vqv_score * ACTION_WEIGHTS.vqv_score
            + sig.share_score * ACTION_WEIGHTS.share_score
            + sig.share_via_dm_score * ACTION_WEIGHTS.share_via_dm_score
            + sig.share_via_copy_link_score * ACTION_WEIGHTS.share_via_copy_link_score
            + sig.dwell_score * ACTION_WEIGHTS.dwell_score
            + sig.quote_score * ACTION_WEIGHTS.quote_score
            + sig.quoted_click_score * ACTION_WEIGHTS.quoted_click_score
            + sig.follow_author_score * ACTION_WEIGHTS.follow_author_score
            + sig.dwell_time * ACTION_WEIGHTS.dwell_time
            + sig.not_interested_score * ACTION_WEIGHTS.not_interested_score
            + sig.block_author_score * ACTION_WEIGHTS.block_author_score
            + sig.mute_author_score * ACTION_WEIGHTS.mute_author_score
            + sig.report_score * ACTION_WEIGHTS.report_score
    IN  IF combined < 0 THEN combined * 2 ELSE combined

-----------------------------------------------------------------------------
(* Comparison engine *)

\* the unrounded delta_pct of compute_delta as a fraction n / d, d > 0
DeltaPct(orig, opt) ==
    IF orig = 0 /\ opt > 0 THEN [n |-> 100, d |-> 1]
    ELSE IF orig = 0 THEN [n |-> 0, d |-> 1]
    ELSE IF orig > 0 THEN [n |-> (opt - orig) * 100, d |-> orig]
    ELSE [n |-> (orig - opt) * 100, d |-> 0 - orig]

DeltaEntry(action, orig, opt, negatives) ==
    LET isNew == orig = 0 /\ opt > 0
        delta_pct == DeltaPct(orig, opt)
        is_negative == action \in negatives
        direction == IF is_negative
                     THEN (IF delta_pct.n < 0 THEN "improved" ELSE "worse")
                     ELSE (IF delta_pct.n > 0 THEN "improved" ELSE "worse")
    IN  [original |-> orig,
         optimized |-> opt,
         delta_pct |-> RoundHalfEven(delta_pct.n * 10, delta_pct.d),
         direction |-> direction,
         is_new |-> isNew]

\* the polarity of the negative signals ignored
compute_delta_no_polarity(orig_scores, opt_scores) ==
    [action \in Actions |->
        DeltaEntry(action, Get(orig_scores, action, 0), Get(opt_scores, action, 0), {})]

\* every signal absent from the original flagged as new
compute_delta_new_on_zero(orig_scores, opt_scores) ==
    [action \in Actions |->
        [DeltaEntry(action, Get(orig_scores, action, 0), Get(opt_scores, action, 0),
                    NEGATIVE_ACTIONS)
         EXCEPT !.is_new = (Get(orig_scores, action, 0) = 0)]]

compute_delta(orig_scores, opt_scores) ==
    [action \in Actions |->
        DeltaEntry(action, Get(orig_scores, action, 0), Get(opt_scores, action, 0),
                   NEGATIVE_ACTIONS)]

\* the weighted score rounded to one decimal instead of two
full_score_report_one_decimal(a, has_media) ==
    LET sig == score_tweet(a)
        weighted_score == compute_weighted_score(sig, has_media)
    IN  [signals |-> sig,
         weighted_score |-> RoundHalfEven(weighted_score, 10000) * 10]

full_score_report(a, has_media) ==
    LET sig == score_tweet(a)
        weighted_score == compute_weighted_score(sig, has_media)
    IN  [signals |-> sig,
         weighted_score |-> RoundHalfEven(weighted_score, 1000)]

comparison_report(original_analysis, optimized_scores, has_media) ==
    LET orig_report == full_score_report(original_analysis, has_media)
        opt_weighted == compute_weighted_score(optimized_scores, has_media)
        dlt == compute_delta(orig_report.signals, optimized_scores)
    IN  [original |-> orig_report,
         optimized |-> [signals |-> optimized_scores,
                        weighted_score |-> RoundHalfEven(opt_weighted, 1000)],
         delta |-> dlt,
         weighted_score_original |-> orig_report.weighted_score,
         weighted_score_optimized |-> RoundHalfEven(opt_weighted, 1000),
         weighted_score_change |->
            RoundHalfEven(opt_weighted - orig_report.weighted_score * 1000, 1000)]

-----------------------------------------------------------------------------
(* Specification SpecScore: the feature record of one text is scored and    *)
(* then compared against its own heuristic estimate.                        *)

\* values of the variables an operation does not use
IdlePipeline ==
    /\ entry = "none"
    /\ supplied = None
    /\ variation = None
    /\ warnings = {}
    /\ raised = "none"

IdleVector ==
    /\ original = None
    /\ optimized = None
    /\ delta = None

IdleText ==
    /\ text = None
    /\ cli = None

InitScore ==
    /\ pc = "start"
    /\ max_chars \in MaxCharsValues
    /\ \E m \in Measurements :
          /\ Realizable(m)
          /\ analysis = FeatureDict(m, max_chars)
    /\ signals = None
    /\ report = None
    /\ comparison = None
    /\ weighted = None
    /\ IdlePipeline
    /\ IdleVector
    /\ IdleText

ScoreTweet ==
    /\ pc = "start"
    /\ signals' = score_tweet(analysis)
    /\ pc' = "scored"
    /\ UNCHANGED <<text, cli, entry, max_chars, analysis, report, supplied,
                   variation, warnings, comparison, raised, weighted, original,
                   optimized, delta>>

ComparisonRoundTrip ==
    /\ pc = "scored"
    /\ comparison' = comparison_report(analysis, signals, analysis.has_media)
    /\ pc' = "done"
    /\ UNCHANGED <<text, cli, entry, max_chars, analysis, signals, report,
                   supplied, variation, warnings, raised, weighted, original,
                   optimized, delta>>

NextScore == ScoreTweet \/ ComparisonRoundTrip

SpecScore == InitScore /\ [][NextScore]_vars

-----------------------------------------------------------------------------
(* Specification SpecVector: the aggregator and compute_delta applied to    *)
(* signal vectors of any source.                                            *)

\* probabilities a vector entry is drawn from: out of range below and above,
\* zero, in range, and one ten-thousandth on either side of 0.25
ProbeValues == {-500, 0, 100, 500, 2000, 2499, 2501, 10500}
BaseValues == {0, 2500}
ReportValues == {0, 100, 200}
OriginalValues == {0, 500, 2000, 2500}

\* every entry b, except entry i which is x and, when i is another entry,
\* report_score which is y
ProbeVector(b, i, x, y) ==
    [a \in Actions |->
        IF a = i THEN x ELSE IF a = "report_score" THEN y ELSE b]

CandidateVectors ==
    {ProbeVector(b, i, x, y) :
        b \in BaseValues, i \in Actions, x \in ProbeValues, y \in ReportValues}

\* originals: the same value for every id present; two ids may be absent
OriginalVectors ==
    {[a \in D |-> o] :
        D \in {Actions, Actions \ {"reply_score", "mute_author_score"}},
        o \in OriginalValues}

InitVector ==
    /\ pc = "start"
    /\ original \in OriginalVectors
    /\ optimized \in CandidateVectors
    /\ delta = None
    /\ weighted = None
    /\ max_chars \in MaxCharsValues
    /\ analysis = None
    /\ signals = None
    /\ report = None
    /\ comparison = None
    /\ IdlePipeline
    /\ IdleText

Aggregate ==
    /\ pc = "start"
    /\ weighted' = compute_weighted_score(optimized, FALSE)
    /\ pc' = "aggregated"
    /\ UNCHANGED <<text, cli, entry, max_chars, analysis, signals, report,
                   supplied, variation, warnings, comparison, raised, original,
                   optimized, delta>>

ComputeDelta ==
    /\ pc = "aggregated"
    /\ delta' = compute_delta(original, optimized)
    /\ pc' = "compared"
    /\ UNCHANGED <<text, cli, entry, max_chars, analysis, signals, report,
                   supplied, variation, warnings, comparison, raised, weighted,
                   original, optimized>>

NextVector == Aggregate \/ ComputeDelta

SpecVector == InitVector /\ [][NextVector]_vars

-----------------------------------------------------------------------------
(* Validation of an externally generated variation *)

\* a value of the parsed JSON: a number, or anything else (a string, null)
Number(n) == [numeric |-> TRUE, value |-> n]
NonNumeric == [numeric |-> FALSE, value |-> 0]

\* one entry of the warnings list; the fields a kind does not use are empty
Warning(kind, ids, action, value) ==
    [kind |-> kind, ids |-> ids, action |-> action, value |-> value]

\* the range check dropped its upper limit
validate_variation_no_upper(var, maxChars) ==
    LET tweet == Get(var, "tweet", 0)
        scores == Get(var, "scores", <<>>)
        missing == {a \in Actions : a \notin DOMAIN scores}
    IN  (IF tweet = 0 THEN {Warning("Missing tweet text", {}, "", 0)}
         ELSE IF tweet > maxChars THEN {Warning("Tweet exceeds", {}, "", tweet)}
         ELSE {})
        \cup (IF missing # {} THEN {Warning("Missing scores", missing, "", 0)} ELSE {})
        \cup {Warning("Non-numeric score", {}, a, 0) :
                 a \in {k \in DOMAIN scores : ~scores[k].numeric}}
        \cup {Warning("Score out of range", {}, a, scores[a].value) :
                 a \in {k \in DOMAIN scores :
                          scores[k].numeric /\ ~(0 <= scores[k].value)}}

\* var.tweet is the length of the tweet text, 0 for an absent or empty text;
\* the list of warnings is modelled as the set of its entries
validate_variation(var, maxChars) ==
    LET tweet == Get(var, "tweet", 0)
        scores == Get(var, "scores", <<>>)
        missing == {a \in Actions : a \notin DOMAIN scores}
    IN  (IF tweet = 0 THEN {Warning("Missing tweet text", {}, "", 0)}
         ELSE IF tweet > maxChars THEN {Warning("Tweet exceeds", {}, "", tweet)}
         ELSE {})
        \cup (IF missing # {} THEN {Warning("Missing scores", missing, "", 0)} ELSE {})
        \cup {Warning("Non-numeric score", {}, a, 0) :
                 a \in {k \in DOMAIN scores : ~scores[k].numeric}}
        \cup {Warning("Score out of range", {}, a, scores[a].value) :
                 a \in {k \in DOMAIN scores :
                          scores[k].numeric
                          /\ ~(0 <= scores[k].value /\ scores[k].value <= 10000)}}

\* every catalog id assigned 0.0, present or not
FillMissingOverwrite(scores) ==
    [a \in Actions \cup DOMAIN scores |-> Number(0)]

\* for action in ACTIONS: var["scores"].setdefault(action, 0.0)
FillMissing(scores) ==
    [a \in Actions \cup DOMAIN scores |->
        IF a \in DOMAIN scores THEN scores[a] ELSE Number(0)]

\* the numbers of a mapping whose values are all numeric
Values(scores) == [a \in DOMAIN scores |-> scores[a].value]

-----------------------------------------------------------------------------
(* Specification Spec: optimize, optimize_preserve_style and refine_tweet   *)
(* processing one variation returned by the external generator.             *)

EntryPoints == {"optimize", "optimize_preserve_style", "refine_tweet"}

\* a short plain text, a long rich one and one made of six hashtags
PlainText ==
    [char_count |-> 42, line_count |-> 1, has_hook |-> TRUE, questions |-> 0,
     hashtags |-> 0, has_url |-> FALSE, has_media |-> FALSE, cta_matches |-> 0,
     found_power |-> 0, has_numbers |-> FALSE, has_list |-> FALSE,
     emoji_count |-> 0]

RichText ==
    [char_count |-> 200, line_count |-> 4, has_hook |-> TRUE, questions |-> 1,
     hashtags |-> 0, has_url |-> TRUE, has_media |-> TRUE, cta_matches |-> 1,
     found_power |-> 2, has_numbers |-> TRUE, has_list |-> TRUE,
     emoji_count |-> 1]

HashtagText ==
    [char_count |-> 41, line_count |-> 1, has_hook |-> TRUE, questions |-> 0,
     hashtags |-> 6, has_url |-> FALSE, has_media |-> FALSE, cta_matches |-> 0,
     found_power |-> 0, has_numbers |-> FALSE, has_list |-> FALSE,
     emoji_count |-> 0]

PipelineTexts == {PlainText, RichText, HashtagText}

\* what the generator may return for one variation
TweetLengths == {0, 120, 300}
MissingSets ==
    {{}, {"reply_score"}, {"reply_score", "report_score"},
     {"favorite_score", "block_author_score", "dwell_time"}, Actions}
JsonValues ==
    {Number(-500), Number(0), Number(3000), Number(10000), Number(10500), NonNumeric}

\* every id outside M present with 0.25, except id i whose value is x
SuppliedScores(M, i, x) ==
    [a \in Actions \ M |-> IF a = i THEN x ELSE Number(2500)]

Variations ==
    {[tweet |-> t, scores |-> SuppliedScores(M, i, x)] :
        t \in TweetLengths, M \in MissingSets, i \in Actions, x \in JsonValues}
    \cup {[tweet |-> t] : t \in TweetLengths}

Init ==
    /\ pc = "start"
    /\ entry \in EntryPoints
    /\ max_chars \in MaxCharsValues
    /\ \E m \in PipelineTexts :
          /\ Realizable(m)
          /\ analysis = FeatureDict(m, max_chars)
    /\ signals = None
    /\ report = None
    /\ supplied = None
    /\ variation = None
    /\ warnings = {}
    /\ comparison = None
    /\ raised = "none"
    /\ weighted = None
    /\ IdleVector
    /\ IdleText

\* step 2 of optimize and optimize_preserve_style; refine_tweet has no such step
ScoreOriginal ==
    /\ pc = "start"
    /\ entry \in {"optimize", "optimize_preserve_style"}
    /\ signals' = score_tweet(analysis)
    /\ pc' = "generate"
    /\ UNCHANGED <<text, cli, entry, max_chars, analysis, report, supplied,
                   variation, warnings, comparison, raised, weighted, original,
                   optimized, delta>>

\* call_claude and parse_response succeeded and the response holds a variation
Generate ==
    /\ \/ pc = "generate"
       \/ pc = "start" /\ entry = "refine_tweet"
    /\ \E v \in Variations :
          /\ supplied' = v
          /\ variation' = v
    /\ pc' = "validate"
    /\ UNCHANGED <<text, cli, entry, max_chars, analysis, signals, report,
                   warnings, comparison, raised, weighted, original, optimized,
                   delta>>

\* call_claude or parse_response raised, or the response holds no variations
GenerateFails ==
    /\ \/ pc = "generate"
       \/ pc = "start" /\ entry = "refine_tweet"
    /\ raised' = "OptimizationError"
    /\ pc' = "raised"
    /\ UNCHANGED <<text, cli, entry, max_chars, analysis, signals, report,
                   supplied, variation, warnings, comparison, weighted,
                   original, optimized, delta>>

ValidateVariation ==
    /\ pc = "validate"
    /\ warnings' = validate_variation(variation, max_chars)
    /\ pc' = "fill"
    /\ UNCHANGED <<text, cli, entry, max_chars, analysis, signals, report,
                   supplied, variation, comparison, raised, weighted, original,
                   optimized, delta>>

FillIn ==
    /\ pc = "fill"
    /\ variation' = IF "scores" \in DOMAIN variation
                    THEN [variation EXCEPT !.scores = FillMissing(variation.scores)]
                    ELSE variation
    /\ pc' = "compare"
    /\ UNCHANGED <<text, cli, entry, max_chars, analysis, signals, report,
                   supplied, warnings, comparison, raised, weighted, original,
                   optimized, delta>>

\* comparison_report on var["scores"]; arithmetic on a value that is not a
\* number raises TypeError, which no caller catches
Compare ==
    /\ pc = "compare"
    /\ IF "scores" \in DOMAIN variation
       THEN IF \A a \in Actions : variation.scores[a].numeric
            THEN /\ comparison' = comparison_report(analysis, Values(variation.scores),
                                                    analysis.has_media)
                 /\ weighted' = compute_weighted_score(Values(variation.scores),
                                                       analysis.has_media)
                 /\ pc' = "report"
                 /\ UNCHANGED raised
            ELSE /\ raised' = "TypeError"
                 /\ pc' = "raised"
                 /\ UNCHANGED <<comparison, weighted>>
       ELSE /\ comparison' = None
            /\ pc' = "report"
            /\ UNCHANGED <<raised, weighted>>
    /\ UNCHANGED <<text, cli, entry, max_chars, analysis, signals, report,
                   supplied, variation, warnings, original, optimized, delta>>

OriginalReport ==
    /\ pc = "report"
    /\ report' = full_score_report(analysis, analysis.has_media)
    /\ pc' = "done"
    /\ UNCHANGED <<text, cli, entry, max_chars, analysis, signals, supplied,
                   variation, warnings, comparison, raised, weighted, original,
                   optimized, delta>>

Next ==
    \/ ScoreOriginal
    \/ Generate
    \/ GenerateFails
    \/ ValidateVariation
    \/ FillIn
    \/ Compare
    \/ OriginalReport

Spec == Init /\ [][Next]_vars

-----------------------------------------------------------------------------
(* Text.  A text is a sequence of characters; an ASCII character is the    *)
(* string of that character and any other character is written by its     *)
(* code point ("U+015F").  The character classes list the characters the   *)
(* model uses; a character in none of them is neither a letter, a digit,   *)
(* white space nor an emoji.                                                *)

LowerCase ==
    {"a", "b", "c", "d", "e", "f", "g", "h", "i", "j", "k", "l", "m", "n", "o",
     "p", "q", "r", "s", "t", "u", "v", "w", "x", "y", "z"}

UpperSeq ==
    <<"A", "B", "C", "D", "E", "F", "G", "H", "I", "J", "K", "L", "M", "N", "O",
      "P", "Q", "R", "S", "T", "U", "V", "W", "X", "Y", "Z",
      "U+00C3", "U+00C4", "U+00C5", "U+0178", "U+015E", "U+00C7">>

LowerSeq ==
    <<"a", "b", "c", "d", "e", "f", "g", "h", "i", "j", "k", "l", "m", "n", "o",
      "p", "q", "r", "s", "t", "u", "v", "w", "x", "y", "z",
      "U+00E3", "U+00E4", "U+00E5", "U+00FF", "U+015F", "U+00E7">>

\* str.lower() on one character
LowerOf ==
    [c \in {UpperSeq[i] : i \in 1..Len(UpperSeq)} |->
        LowerSeq[CHOOSE i \in 1..Len(UpperSeq) : UpperSeq[i] = c]]

Lower(c) == IF c \in DOMAIN LowerOf THEN LowerOf[c] ELSE c

\* text.lower()
ToLower(s) == [i \in 1..Len(s) |-> Lower(s[i])]

\* \d
Digits == {"0", "1", "2", "3", "4", "5", "6", "7", "8", "9"}

\* \s, and what str.strip() and str.split() take for white space
Whitespace == {" ", "\n", "\t"}

\* \w: letters, digits and the underscore; of the characters outside ASCII
\* the letters and numerics (str.isalnum) a text or a catalog of the model holds
WordChars ==
    LowerCase \cup {UpperSeq[i] : i \in 1..Len(UpperSeq)}
    \cup {LowerSeq[i] : i \in 1..Len(LowerSeq)} \cup Digits \cup {"_"}
    \cup {"U+00BC", "U+0153", "U+017E", "U+00E2", "U+00F0", "U+00B5", "U+00BA",
          "U+011F", "U+0131", "U+00F6", "U+00FC"}

\* the ranges U+1F300-U+1FAFF, U+1FB00-U+1FBFF, U+2600-U+27BF, U+FE00-U+FEFF
EmojiChars == {"U+1F9F5", "U+1F447", "U+2728", "U+FE0F"}

IsSpace(c) == c \in Whitespace
IsWord(c) == c \in WordChars

\* s[i:i+len(w)] == w
StartsAt(w, s, i) ==
    /\ i >= 1
    /\ i + Len(w) - 1 <= Len(s)
    /\ \A k \in 1..Len(w) : s[i + k - 1] = w[k]

\* w in s
Contains(w, s) == \E i \in 1..(Len(s) - Len(w) + 1) : StartsAt(w, s, i)

\* s.endswith(w)
EndsWith(s, w) == StartsAt(w, s, Len(s) - Len(w) + 1)

\* \b between s[k] and s[k+1], the ends of s counting as non-word
WordBoundary(s, k) ==
    (k >= 1 /\ k <= Len(s) /\ IsWord(s[k]))
        # (k + 1 >= 1 /\ k + 1 <= Len(s) /\ IsWord(s[k + 1]))

\* re.search(rf"\b{w}\b", s)
SearchWord(w, s) ==
    \E i \in 1..(Len(s) - Len(w) + 1) :
        /\ StartsAt(w, s, i)
        /\ WordBoundary(s, i - 1)
        /\ WordBoundary(s, i + Len(w) - 1)

\* s.strip()
Strip(s) ==
    LET keep == {i \in 1..Len(s) : ~IsSpace(s[i])}
    IN  IF keep = {} THEN <<>>
        ELSE SubSeq(s, CHOOSE i \in keep : \A j \in keep : i <= j,
                       CHOOSE i \in keep : \A j \in keep : j <= i)

\* s.split("\n")
RECURSIVE SplitLines(_)
SplitLines(s) ==
    LET breaks == {i \in 1..Len(s) : s[i] = "\n"}
    IN  IF breaks = {} THEN <<s>>
        ELSE LET b == CHOOSE i \in breaks : \A j \in breaks : i <= j
             IN  <<SubSeq(s, 1, b - 1)>> \o SplitLines(SubSeq(s, b + 1, Len(s)))

\* [l for l in ls if l.strip()]
RECURSIVE NonBlank(_)
NonBlank(ls) ==
    IF ls = <<>> THEN <<>>
    ELSE (IF Strip(Head(ls)) # <<>> THEN <<Head(ls)>> ELSE <<>>)
         \o NonBlank(Tail(ls))

\* s.count(c)
Count(c, s) == Cardinality({i \in 1..Len(s) : s[i] = c})

\* len(s.split())
WordCount(s) ==
    Cardinality({i \in 1..Len(s) :
                    ~IsSpace(s[i]) /\ (i = 1 \/ IsSpace(s[i - 1]))})

\* the end of the run of word characters that starts at s[i]
RECURSIVE WordRunEnd(_, _)
WordRunEnd(s, i) ==
    IF i < Len(s) /\ IsWord(s[i + 1]) THEN WordRunEnd(s, i + 1) ELSE i

\* re.findall(r"#\w+", s[i:]) for the matches that start at s[i] or later
RECURSIVE FindHashtags(_, _)
FindHashtags(s, i) ==
    IF i >= Len(s) THEN <<>>
    ELSE IF s[i] = "#" /\ IsWord(s[i + 1])
    THEN <<SubSeq(s, i, WordRunEnd(s, i + 1))>>
         \o FindHashtags(s, WordRunEnd(s, i + 1) + 1)
    ELSE FindHashtags(s, i + 1)

\* bool(re.search(r"https?://\S+", s))
SearchUrl(s) ==
    \E i \in 1..Len(s) :
        \/ /\ StartsAt(<<"h", "t", "t", "p", ":", "/", "/">>, s, i)
           /\ i + 7 <= Len(s)
           /\ ~IsSpace(s[i + 7])
        \/ /\ StartsAt(<<"h", "t", "t", "p", "s", ":", "/", "/">>, s, i)
           /\ i + 8 <= Len(s)
           /\ ~IsSpace(s[i + 8])

-----------------------------------------------------------------------------
(* Structural analysis of a text *)

\* the characters of the string literal of _TR_CHARS
_TR_CHARS ==
    {"U+00A7", "U+00B0", "U+00B1", "U+00B6", "U+00BC", "U+00C3", "U+00C4",
     "U+00C5", "U+0153", "U+0178", "U+017E", "U+2013", "U+2021"}

\* each pattern is \b<literal>\b; the literal is kept
_CTA_PATTERNS_EN ==
    <<<<"f", "o", "l", "l", "o", "w">>, <<"r", "e", "t", "w", "e", "e", "t">>,
      <<"s", "h", "a", "r", "e">>, <<"l", "i", "k", "e">>,
      <<"c", "h", "e", "c", "k", " ", "o", "u", "t">>,
      <<"c", "l", "i", "c", "k">>,
      <<"s", "u", "b", "s", "c", "r", "i", "b", "e">>, <<"j", "o", "i", "n">>,
      <<"s", "a", "v", "e", " ", "t", "h", "i", "s">>,
      <<"b", "o", "o", "k", "m", "a", "r", "k">>, <<"t", "a", "g">>,
      <<"d", "r", "o", "p">>, <<"c", "o", "m", "m", "e", "n", "t">>,
      <<"t", "r", "y">>, <<"r", "e", "a", "d">>>>

\* each pattern is \b<literal>\b; the literal is kept
_CTA_PATTERNS_TR ==
    <<<<"t", "a", "k", "i", "p">>,
      <<"p", "a", "y", "l", "a", "U+00C5", "U+0178">>,
      <<"b", "e", "U+00C4", "U+0178", "e", "n">>, <<"b", "a", "k">>,
      <<"t", "U+00C4", "U+00B1", "k", "l", "a">>, <<"a", "b", "o", "n", "e">>,
      <<"k", "a", "t", "U+00C4", "U+00B1", "l">>,
      <<"k", "a", "y", "d", "e", "t">>, <<"y", "o", "r", "u", "m">>,
      <<"d", "e", "n", "e">>, <<"o", "k", "u">>, <<"y", "a", "z">>>>

\* literal substrings
_POWER_WORDS_EN ==
    <<<<"s", "e", "c", "r", "e", "t">>,
      <<"s", "h", "o", "c", "k", "i", "n", "g">>, <<"t", "r", "u", "t", "h">>,
      <<"m", "i", "s", "t", "a", "k", "e">>, <<"w", "r", "o", "n", "g">>,
      <<"n", "e", "v", "e", "r">>, <<"a", "l", "w", "a", "y", "s">>,
      <<"m", "u", "s", "t">>, <<"s", "t", "o", "p">>,
      <<"w", "a", "r", "n", "i", "n", "g">>, <<"p", "r", "o", "v", "e", "n">>,
      <<"f", "r", "e", "e">>, <<"e", "x", "c", "l", "u", "s", "i", "v", "e">>,
      <<"b", "r", "e", "a", "k", "i", "n", "g">>,
      <<"u", "r", "g", "e", "n", "t">>, <<"f", "i", "n", "a", "l", "l", "y">>,
      <<"r", "e", "v", "e", "a", "l", "e", "d">>,
      <<"u", "n", "p", "o", "p", "u", "l", "a", "r", " ", "o", "p", "i",
        "n", "i", "o", "n">>,
      <<"h", "o", "t", " ", "t", "a", "k", "e">>,
      <<"t", "h", "r", "e", "a", "d">>, <<"l", "e", "s", "s", "o", "n">>>>

\* literal substrings
_POWER_WORDS_TR ==
    <<<<"s", "U+00C4", "U+00B1", "r">>, <<"U+00C5", "U+0178", "o", "k">>,
      <<"g", "e", "r", "U+00C3", "U+00A7", "e", "k">>, <<"h", "a", "t", "a">>,
      <<"y", "a", "n", "l", "U+00C4", "U+00B1", "U+00C5", "U+0178">>,
      <<"a", "s", "l", "a">>, <<"h", "e", "r", " ", "z", "a", "m", "a", "n">>,
      <<"m", "u", "t", "l", "a", "k", "a">>, <<"d", "u", "r">>,
      <<"u", "y", "a", "r", "U+00C4", "U+00B1">>,
      <<"k", "a", "n", "U+00C4", "U+00B1", "t", "l", "a", "n", "m",
        "U+00C4", "U+00B1", "U+00C5", "U+0178">>,
      <<"U+00C3", "U+00BC", "c", "r", "e", "t", "s", "i", "z">>,
      <<"U+00C3", "U+00B6", "z", "e", "l">>,
      <<"s", "o", "n", " ", "d", "a", "k", "i", "k", "a">>,
      <<"a", "c", "i", "l">>, <<"s", "o", "n", "u", "n", "d", "a">>>>

\* the stop words of detect_language
trWords ==
    <<<<"b", "i", "r">>, <<"b", "u">>, <<"v", "e">>, <<"i", "l", "e">>,
      <<"i", "U+00C3", "U+00A7", "i", "n">>, <<"o", "l", "a", "n">>,
      <<"v", "a", "r">>, <<"g", "i", "b", "i">>, <<"a", "m", "a">>,
      <<"U+00C3", "U+00A7", "o", "k">>, <<"d", "a", "h", "a">>,
      <<"b", "e", "n">>, <<"s", "e", "n">>, <<"b", "i", "z">>,
      <<"d", "e", "U+00C4", "U+0178", "i", "l">>,
      <<"o", "l", "a", "r", "a", "k">>, <<"k", "a", "d", "a", "r">>,
      <<"s", "o", "n", "r", "a">>, <<"U+00C3", "U+00B6", "n", "c", "e">>,
      <<"U+00C5", "U+0178", "e", "y">>>>

\* the strings a first line may end with
hook_indicators ==
    <<<<":">>, <<"?">>, <<"!">>, <<".", ".", ".">>,
      <<"U+00E2", "U+20AC", "U+201D">>,
      <<"U+00F0", "U+0178", "U+2018", "U+2021">>,
      <<"U+00F0", "U+0178", "U+00A7", "U+00B5">>>>

\* the characters of the class that opens a list line, besides \d
ListMarkers ==
    Digits \cup {"U+00E2", "U+20AC", "U+00A2", "-", "*", "U+2013", "U+00BA",
                 "U+00B8", "U+2020", "U+2019"}

detect_language(s) ==
    IF \E i \in 1..Len(s) : s[i] \in _TR_CHARS THEN "tr"
    ELSE LET lower == ToLower(s)
             trCount == Cardinality({k \in 1..Len(trWords) :
                                        SearchWord(trWords[k], lower)})
         IN  IF trCount >= 3 THEN "tr" ELSE "en"

\* re.match(r"^\s*[...]\s*", l) on a line that is not blank
IsListLine(l) ==
    LET first == CHOOSE i \in 1..Len(l) :
                    /\ ~IsSpace(l[i])
                    /\ \A j \in 1..(i - 1) : IsSpace(l[j])
    IN  l[first] \in ListMarkers

analyze_body(s, has_media, maxChars) ==
    LET lines == NonBlank(SplitLines(Strip(s)))
        first_line == IF lines # <<>> THEN Strip(lines[1]) ELSE <<>>
        hashtags == FindHashtags(s, 1)
        questions == Count("?", s)
        lang == detect_language(s)
        has_hook == \/ \E h \in 1..Len(hook_indicators) :
                          EndsWith(first_line, hook_indicators[h])
                    \/ Len(first_line) < 60
        lower_text == ToLower(s)
        cta_patterns == IF lang = "tr" THEN _CTA_PATTERNS_TR ELSE _CTA_PATTERNS_EN
        MatchesCta(p) == SearchWord(p, lower_text)
        cta_matches == SelectSeq(cta_patterns, MatchesCta)
        power_words == IF lang = "tr" THEN _POWER_WORDS_TR ELSE _POWER_WORDS_EN
        IsFound(w) == Contains(w, lower_text)
        found_power == SelectSeq(power_words, IsFound)
        list_lines == SelectSeq(lines, IsListLine)
    IN  [char_count |-> Len(s),
         char_utilization |-> RoundHalfEven(Len(s) * 1000, maxChars),
         word_count |-> WordCount(s),
         line_count |-> Len(lines),
         first_line |-> first_line,
         has_hook |-> has_hook,
         has_question |-> questions > 0,
         question_count |-> questions,
         hashtag_count |-> Len(hashtags),
         hashtags |-> hashtags,
         has_url |-> SearchUrl(s),
         has_media |-> has_media,
         lang |-> lang,
         has_cta |-> Len(cta_matches) > 0,
         cta_count |-> Len(cta_matches),
         power_word_count |-> Len(found_power),
         power_words_found |-> found_power,
         has_numbers |-> \E i \in 1..Len(s) : s[i] \in Digits,
         has_list_format |-> Len(list_lines) >= 2,
         emoji_count |-> Cardinality({i \in 1..Len(s) : s[i] \in EmojiChars})]

\* the power words looked up in the text as typed, not in the lower-cased text
analyze_case_sensitive(s, has_media, maxChars) ==
    LET a == analyze_body(s, has_media, maxChars)
        power_words == IF a.lang = "tr" THEN _POWER_WORDS_TR ELSE _POWER_WORDS_EN
        IsFound(w) == Contains(w, s)
        found_power == SelectSeq(power_words, IsFound)
    IN  [a EXCEPT !.power_words_found = found_power,
                  !.power_word_count = Len(found_power)]

\* a hashtag that occurs more than once counted once
analyze_distinct_hashtags(s, has_media, maxChars) ==
    LET a == analyze_body(s, has_media, maxChars)
    IN  [a EXCEPT !.hashtag_count =
                      Cardinality({a.hashtags[i] : i \in 1..Len(a.hashtags)})]

\* the maximum written into the component instead of read from the configuration
analyze_baked_max(s, has_media, maxChars) ==
    [analyze_body(s, has_media, maxChars) EXCEPT
        !.char_utilization = RoundHalfEven(Len(s) * 1000, 280)]

\* the English power words used whatever the language
analyze_english_power_words(s, has_media, maxChars) ==
    LET a == analyze_body(s, has_media, maxChars)
        IsFound(w) == Contains(w, ToLower(s))
        found_power == SelectSeq(_POWER_WORDS_EN, IsFound)
    IN  [a EXCEPT !.power_words_found = found_power,
                  !.power_word_count = Len(found_power)]

analyze(s, has_media, maxChars) == analyze_body(s, has_media, maxChars)

-----------------------------------------------------------------------------
(* Specification SpecText: analyze on a text, then score_tweet on the       *)
(* feature record.                                                          *)

\* n times the character c
Repeat(c, n) == [i \in 1..n |-> c]

\* "Is AI going to replace your job? Thread " and U+1F9F5
ExampleText ==
    <<"I", "s", " ", "A", "I", " ", "g", "o", "i", "n", "g", " ", "t", "o",
      " ", "r", "e", "p", "l", "a", "c", "e", " ", "y", "o", "u", "r", " ",
      "j", "o", "b", "?", " ", "T", "h", "r", "e", "a", "d", " ", "U+1F9F5">>

\* hashtags: #ai, #growthhacking, and CTA words (one also capitalised)
TagPool ==
    {<<"#", "a", "i">>,
     <<"#", "g", "r", "o", "w", "t", "h", "h", "a", "c", "k", "i", "n", "g">>,
     <<"#", "f", "o", "l", "l", "o", "w">>,
     <<"#", "s", "h", "a", "r", "e">>,
     <<"#", "S", "h", "a", "r", "e">>,
     <<"#", "l", "i", "k", "e">>}

\* the hashtag that fills the last three places
LastTags ==
    {<<"#", "a", "i">>,
     <<"#", "g", "r", "o", "w", "t", "h", "h", "a", "c", "k", "i", "n", "g">>}

\* six hashtags and nothing else but the separator between them
HashtagTexts ==
    {t1 \o sep \o t2 \o sep \o t3 \o sep \o t4 \o sep \o t4 \o sep \o t4 :
        t1 \in TagPool, t2 \in TagPool, t3 \in TagPool, t4 \in LastTags,
        sep \in {<<" ">>, <<"\n">>}}

\* openings: none, stop words (three, two, one twice, upper case, inside a longer
\* word, punctuated, four), a Turkish letter (U+015F, U+015E), a degree sign
\* after two stop words, and U+00C5
LangPrefixes ==
    {<<>>,
     <<"b", "i", "r", " ", "b", "u", " ", "v", "e", " ">>,
     <<"b", "i", "r", " ", "b", "u", " ">>,
     <<"b", "i", "r", " ", "b", "i", "r", " ", "v", "e", " ">>,
     <<"B", "i", "r", " ", "B", "U", " ", "V", "e", " ">>,
     <<"b", "i", "r", "d", " ", "b", "u", " ", "v", "e", " ">>,
     <<"b", "i", "r", ",", "b", "u", "-", "v", "e", " ">>,
     <<"i", "l", "e", " ", "v", "a", "r", " ", "g", "i", "b", "i", " ", "a",
       "m", "a", " ">>,
     <<"U+015F", " ">>,
     <<"U+015E", " ">>,
     <<"b", "u", " ", "v", "e", " ", "3", "0", "U+00B0", " ">>,
     <<"U+00C5", " ">>}

\* words of the body: power words and CTA words of both languages, plain,
\* in upper case and inside a longer word
BodyWords ==
    {<<>>,
     <<"s", "t", "o", "p">>,
     <<"n", "e", "v", "e", "r">>,
     <<"t", "h", "r", "e", "a", "d", "s">>,
     <<"S", "T", "O", "P">>,
     <<"d", "u", "r">>,
     <<"a", "s", "l", "a">>,
     <<"f", "o", "l", "l", "o", "w">>,
     <<"f", "o", "l", "l", "o", "w", "e", "r", "s">>,
     <<"t", "a", "k", "i", "p">>,
     <<"l", "i", "k", "e">>}

\* an opening followed by two words of the body
LanguageTexts ==
    {p \o w1 \o <<" ">> \o w2 :
        p \in LangPrefixes, w1 \in BodyWords, w2 \in BodyWords}

\* what a first line ends with: nothing, a full stop, each ASCII marker, two
\* dots, an em-dash (U+2014), the thread and pointing-down pictographs, and
\* the three characters U+00E2 U+20AC U+201D
LineEndings ==
    {<<>>,
     <<".">>,
     <<":">>,
     <<"?">>,
     <<"!">>,
     <<".", ".", ".">>,
     <<".", ".">>,
     <<"U+2014">>,
     <<"U+1F9F5">>,
     <<"U+1F447">>,
     <<"U+00E2", "U+20AC", "U+201D">>}

\* what precedes the first non-empty line
LineLeads ==
    {<<>>,
     <<" ", "\n">>,
     <<" ", " ">>}

\* what follows the first line
LineTrails ==
    {<<>>,
     <<" ">>,
     <<" ", "\n", "o", "k">>}

\* lengths of the run of letters the first line starts with
FillLengths == {56, 57, 58, 59, 60}

HookTexts ==
    {lead \o Repeat("x", n) \o e \o trail :
        lead \in LineLeads, n \in FillLengths, e \in LineEndings,
        trail \in LineTrails}

\* empty and whitespace-only texts
EmptyTexts ==
    {<<>>,
     <<" ">>,
     <<"\n", " ", "\t">>}

\* texts with a list, a URL, a scheme without a host, numbers, an emoji
FeatureTexts ==
    {<<"1", ".", " ", "o", "n", "e", "\n", "2", ".", " ", "t", "w", "o",
       "\n", "-", " ", "t", "h", "r", "e", "e">>,
     <<"s", "e", "e", " ", "h", "t", "t", "p", "s", ":", "/", "/", "x", ".",
       "c", "o", " ", "n", "o", "w">>,
     <<"h", "t", "t", "p", ":", "/", "/", " ", "h", "t", "t", "p", "s", ":",
       "/", "/">>,
     <<"5", "0", "%", " ", "o", "f", "f", " ", "#", "1", " ", "d", "e", "a",
       "l", "_", "2">>,
     <<"o", "k", " ", "U+2728", " ", "f", "i", "n", "e">>,
     <<"*", " ", "a", "\n", "\n", "*", " ", "b", "\n", "c", "\n", "d">>}

Texts ==
    {ExampleText} \cup HashtagTexts \cup LanguageTexts \cup HookTexts
    \cup EmptyTexts \cup FeatureTexts

\* values of optimization.max_chars in the configuration
ConfiguredMaxChars == {140, 280}

InitText ==
    /\ pc = "text"
    /\ entry = "analyze"
    /\ text \in Texts
    /\ max_chars \in ConfiguredMaxChars
    /\ cli = None
    /\ analysis = None
    /\ signals = None
    /\ report = None
    /\ supplied = None
    /\ variation = None
    /\ warnings = {}
    /\ comparison = None
    /\ raised = "none"
    /\ weighted = None
    /\ IdleVector

\* analyze(text, has_media)
Analyze ==
    /\ pc = "text"
    /\ \E has_media \in BOOLEAN :
          analysis' = analyze(text, has_media, max_chars)
    /\ pc' = "start"
    /\ UNCHANGED <<text, cli, entry, max_chars, signals, report, supplied,
                   variation, warnings, comparison, raised, weighted, original,
                   optimized, delta>>

NextText == Analyze \/ ScoreTweet

SpecText == InitText /\ [][NextText]_vars

-----------------------------------------------------------------------------
(* Specification SpecMain: main of optimize.py, from the parsed arguments   *)
(* to the exit of the process.                                              *)

\* the variables of the engine, which the command-line layer does not touch
\* but through the operations it calls
engine == <<entry, max_chars, analysis, signals, report, supplied, variation,
            warnings, comparison, weighted, original, optimized, delta, text>>

IdleEngine ==
    /\ max_chars \in MaxCharsValues
    /\ analysis = None
    /\ signals = None
    /\ report = None
    /\ supplied = None
    /\ variation = None
    /\ warnings = {}
    /\ comparison = None
    /\ weighted = None
    /\ text = None
    /\ IdleVector

\* an optional string: None, or the string s
Absent == [given |-> FALSE, chars |-> <<>>]
Given(s) == [given |-> TRUE, chars |-> s]

\* args.tweet: not given, empty, whitespace only, a text, a text in spaces
Positionals ==
    {Absent, Given(<<>>), Given(<<" ">>), Given(<<"\n", " ", "\t">>),
     Given(<<"h", "i">>), Given(<<" ", "h", "i", " ">>)}

\* args.file: not given, or the path of a file that does not exist, that
\* cannot be read, or that holds nothing, white space, or a text
Files ==
    {[kind |-> "absent", contents |-> <<>>],
     [kind |-> "missing", contents |-> <<>>],
     [kind |-> "unreadable", contents |-> <<>>],
     [kind |-> "readable", contents |-> <<>>],
     [kind |-> "readable", contents |-> <<" ", "\n">>],
     [kind |-> "readable", contents |-> <<"h", "i", "\n">>]}

InitMain ==
    /\ pc = "main"
    /\ entry = "main"
    /\ \E p \in Positionals, f \in Files, j \in BOOLEAN, n \in BOOLEAN,
          m \in BOOLEAN :
          cli = [tweet |-> p, file |-> f, json_output |-> j, no_interactive |-> n,
                 media |-> m, local |-> Absent, calls |-> {}, exited |-> FALSE,
                 status |-> 0]
    /\ raised = "none"
    /\ IdleEngine

\* sys.exit(status), or the interpreter ending on an uncaught exception
Exit(c, status) == [c EXCEPT !.exited = TRUE, !.status = status]

\* "Get tweet text": the positional argument, or the trimmed contents of the
\* file; a file that is not found ends the process with status 1, any other
\* failure to read it is not caught
MainReadInput ==
    /\ pc = "main"
    /\ IF cli.file.kind = "absent"
       THEN /\ cli' = [cli EXCEPT !.local = cli.tweet]
            /\ pc' = "check"
            /\ UNCHANGED raised
       ELSE IF cli.file.kind = "readable"
       THEN /\ cli' = [cli EXCEPT !.local = Given(Strip(cli.file.contents))]
            /\ pc' = "check"
            /\ UNCHANGED raised
       ELSE IF cli.file.kind = "missing"
       THEN /\ cli' = Exit(cli, 1)
            /\ pc' = "exited"
            /\ UNCHANGED raised
       ELSE /\ cli' = Exit(cli, 1)
            /\ pc' = "exited"
            /\ raised' = "PermissionError"
    /\ UNCHANGED engine

\* only the test "not tweet"; a text of white space passes
RejectsTweet_only_empty(t) == ~t.given \/ Len(t.chars) = 0

\* "not tweet" or "not tweet.strip()"
RejectsTweet(t) == ~t.given \/ Len(t.chars) = 0 \/ Strip(t.chars) = <<>>

MainCheckEmpty ==
    /\ pc = "check"
    /\ IF RejectsTweet(cli.local)
       THEN /\ cli' = Exit(cli, 1)
            /\ pc' = "exited"
       ELSE /\ cli' = [cli EXCEPT !.tweet = cli.local]
            /\ pc' = "dispatch"
    /\ UNCHANGED <<engine, raised>>

\* the operation the output mode calls: optimize for --json and for
\* --no-interactive, optimize_preserve_style in interactive_flow
MainDispatch ==
    /\ pc = "dispatch"
    /\ cli' = [cli EXCEPT !.calls =
                  @ \cup {IF cli.json_output \/ cli.no_interactive
                          THEN "optimize" ELSE "optimize_preserve_style"}]
    /\ pc' = "pipeline"
    /\ UNCHANGED <<engine, raised>>

\* the keys render_json, render_preserve_style, render_variation_card and
\* render_variations read of result["original_report"], of a comparison and
\* of comparison["optimized"]
ReportKeysRead == {"signals", "categories", "overall"}
ComparisonKeysRead == {"optimized", "overall_change", "delta", "category_delta"}
OptimizedKeysRead == {"overall", "categories"}

\* the first key a renderer reads of result["original_report"]:
\* render_json reads ["categories"], render_variations and
\* render_preserve_style read ["overall"]
FirstKeyRead(json_output) == IF json_output THEN "categories" ELSE "overall"

\* what the called operation does: it raises OptimizationError, which main
\* answers with exit status 1; it raises the TypeError of a score that is not
\* a number; or it returns its result, whose original_report the renderer
\* reads: a missing key is a KeyError nobody catches
Outcomes == {"OptimizationError", "TypeError", "result"}

MainPipeline ==
    /\ pc = "pipeline"
    /\ \E o \in Outcomes :
          LET called == [cli EXCEPT !.calls = @ \cup {"analyze", "call_claude"}]
              original_report ==
                  full_score_report(analyze(cli.tweet.chars, cli.media, max_chars),
                                    cli.media)
          IN  IF o = "OptimizationError"
              THEN /\ cli' = Exit(called, 1)
                   /\ pc' = "exited"
                   /\ UNCHANGED <<raised, report>>
              ELSE IF o = "TypeError"
              THEN /\ cli' = Exit(called, 1)
                   /\ pc' = "exited"
                   /\ raised' = "TypeError"
                   /\ UNCHANGED report
              ELSE /\ report' = original_report
                   /\ IF FirstKeyRead(cli.json_output) \notin DOMAIN original_report
                      THEN /\ cli' = Exit(called, 1)
                           /\ pc' = "exited"
                           /\ raised' = "KeyError"
                      ELSE IF cli.json_output \/ cli.no_interactive
                      THEN /\ cli' = Exit(called, 0)
                           /\ pc' = "exited"
                           /\ UNCHANGED raised
                      ELSE /\ cli' = called
                           /\ pc' = "menu"
                           /\ UNCHANGED raised
    /\ UNCHANGED <<entry, max_chars, analysis, signals, supplied, variation,
                   warnings, comparison, weighted, original, optimized, delta,
                   text>>

NextMain == MainReadInput \/ MainCheckEmpty \/ MainDispatch \/ MainPipeline

SpecMain == InitMain /\ [][NextMain]_vars

-----------------------------------------------------------------------------
(* Specification SpecMenu: _interactive_menu with _refine_loop and          *)
(* _run_phase2, from the first time the menu is shown.  The original tweet  *)
(* is the text; a tweet is named by its version: 0 the original, 1 the      *)
(* tweet of phase 1, 2 and up the refinements in the order they were made.  *)
(* The clipboard holds what the last successful copy put there; produced is *)
(* the tweet the generator returned last, and baselines the tweets that     *)
(* were passed to it as the original.                                       *)

Clip(source, version) == [source |-> source, version |-> version]

\* the text of a tweet: a rewrite differs from the original (here by the
\* question marks it adds, which the scorer sees)
TweetText(v) == text \o Repeat("?", v)

\* the original forgotten on a failure
Unrefined_original(c) == c.original_tweet

\* "return current_tweet" of _refine_loop
Unrefined(c) == c.current_tweet

\* the latest rewrite taken as the original
Baseline_current(c) == c.current_tweet

\* the argument original_tweet of _interactive_menu, which refine_tweet,
\* _run_phase2 and the copy of choice 4 are given
Baseline(c) == c.original_tweet

\* original tweets of a session
MenuTexts == {ExampleText, <<"h", "i">>}

InitMenu ==
    /\ pc = "menu"
    /\ entry = "_interactive_menu"
    /\ text \in MenuTexts
    /\ \E m \in BOOLEAN, t \in BOOLEAN :
          cli = [media |-> m, thread |-> t,
                 original_tweet |-> 0, current_tweet |-> 1,
                 choice |-> 0, shown |-> 1,
                 refine_calls |-> 0, optimize_calls |-> 0,
                 produced |-> 1, baselines |-> {},
                 clipboard |-> Clip("nothing", 0)]
    /\ raised = "none"
    /\ max_chars \in MaxCharsValues
    /\ analysis = None
    /\ signals = None
    /\ report = None
    /\ supplied = None
    /\ variation = None
    /\ warnings = {}
    /\ comparison = None
    /\ weighted = None
    /\ IdleVector

\* the end of a branch of the loop: while True shows the menu again
ShowAgain(c) == [c EXCEPT !.shown = @ + 1]

\* prompt_choice returns the key of one of the five options
MenuPrompt ==
    /\ pc = "menu"
    /\ \E choice \in 1..5 :
          /\ choice \in {1, 2, 4} => cli.shown < MaxMenuRounds
          /\ cli' = [cli EXCEPT !.choice = choice]
          /\ pc' = CASE choice = 1 -> "copy_optimized"
                     [] choice = 2 -> "refine_input"
                     [] choice = 3 -> "phase2"
                     [] choice = 4 -> "copy_original"
                     [] OTHER -> "left"
    /\ UNCHANGED <<engine, raised>>

\* prompt_choice catches ValueError and EOFError only: an interrupt at the
\* prompt leaves the menu before a key is returned
PromptInterrupted ==
    /\ pc = "menu"
    /\ cli' = [cli EXCEPT !.choice = 0]
    /\ raised' = "KeyboardInterrupt"
    /\ pc' = "raised"
    /\ UNCHANGED engine

\* choice 1: copy_to_clipboard(current_tweet) reports success or failure
CopyOptimized ==
    /\ pc = "copy_optimized"
    /\ \E success \in BOOLEAN :
          cli' = ShowAgain([cli EXCEPT !.clipboard =
                               IF success THEN Clip("current_tweet", cli.current_tweet)
                               ELSE @])
    /\ pc' = "menu"
    /\ UNCHANGED <<engine, raised>>

\* choice 4: copy_to_clipboard(original_tweet)
CopyOriginal ==
    /\ pc = "copy_original"
    /\ \E success \in BOOLEAN :
          cli' = ShowAgain([cli EXCEPT !.clipboard =
                               IF success THEN Clip("original_tweet", Baseline(cli))
                               ELSE @])
    /\ pc' = "menu"
    /\ UNCHANGED <<engine, raised>>

\* choice 2, _refine_loop up to the call: the end of input, an interrupt or
\* an empty feedback returns the current tweet
RefineInput ==
    /\ pc = "refine_input"
    /\ \E feedback \in {"EOFError", "KeyboardInterrupt", "", "make it shorter"} :
          IF feedback = "make it shorter"
          THEN /\ cli' = cli
               /\ pc' = "refining"
          ELSE /\ cli' = ShowAgain([cli EXCEPT !.current_tweet = Unrefined(cli)])
               /\ pc' = "menu"
    /\ UNCHANGED <<engine, raised>>

\* choice 2, _refine_loop from the call of refine_tweet: OptimizationError
\* returns the current tweet; a result is rendered by render_preserve_style,
\* which reads original_report["overall"], and its tweet becomes the current
\* one
Refine ==
    /\ pc = "refining"
    /\ \E o \in Outcomes :
          LET called == [cli EXCEPT !.refine_calls = @ + 1,
                                    !.baselines = @ \cup {Baseline(cli)}]
              returned == [called EXCEPT !.produced = 1 + called.refine_calls]
              original_report ==
                  full_score_report(analyze(TweetText(Baseline(cli)), cli.media,
                                            max_chars), cli.media)
          IN  IF o = "OptimizationError"
              THEN /\ cli' = ShowAgain([called EXCEPT !.current_tweet =
                                           Unrefined(called)])
                   /\ pc' = "menu"
                   /\ UNCHANGED <<raised, report>>
              ELSE IF o = "TypeError"
              THEN /\ cli' = called
                   /\ pc' = "raised"
                   /\ raised' = "TypeError"
                   /\ UNCHANGED report
              ELSE /\ report' = original_report
                   /\ IF FirstKeyRead(FALSE) \notin DOMAIN original_report
                      THEN /\ cli' = returned
                           /\ pc' = "raised"
                           /\ raised' = "KeyError"
                      ELSE /\ cli' = ShowAgain([returned EXCEPT !.current_tweet =
                                                   returned.produced])
                           /\ pc' = "menu"
                           /\ UNCHANGED raised
    /\ UNCHANGED <<entry, max_chars, analysis, signals, supplied, variation,
                   warnings, comparison, weighted, original, optimized, delta,
                   text>>

\* choice 3, _run_phase2(args, original_tweet) and the return that follows
\* it: OptimizationError is printed; a result is rendered by
\* render_variations, which reads original_report["overall"], and one more
\* prompt offers to copy a variation, where an interrupt is not caught
RunPhase2 ==
    /\ pc = "phase2"
    /\ \E o \in Outcomes, key \in {"KeyboardInterrupt", "1", "2", "3"},
          success \in BOOLEAN :
          LET called == [cli EXCEPT !.optimize_calls = @ + 1,
                                    !.baselines = @ \cup {Baseline(cli)}]
              idx == IF key = "1" THEN 1 ELSE 2
              original_report ==
                  full_score_report(analyze(TweetText(Baseline(cli)), cli.media,
                                            max_chars), cli.media)
          IN  IF o = "OptimizationError"
              THEN /\ cli' = called
                   /\ pc' = "left"
                   /\ UNCHANGED <<raised, report>>
              ELSE IF o = "TypeError"
              THEN /\ cli' = called
                   /\ pc' = "raised"
                   /\ raised' = "TypeError"
                   /\ UNCHANGED report
              ELSE /\ report' = original_report
                   /\ IF FirstKeyRead(FALSE) \notin DOMAIN original_report
                      THEN /\ cli' = called
                           /\ pc' = "raised"
                           /\ raised' = "KeyError"
                      ELSE IF key = "KeyboardInterrupt"
                      THEN /\ cli' = called
                           /\ pc' = "raised"
                           /\ raised' = "KeyboardInterrupt"
                      ELSE /\ cli' = [called EXCEPT !.clipboard =
                                         IF key # "3" /\ success
                                         THEN Clip("variation", idx) ELSE @]
                           /\ pc' = "left"
                           /\ UNCHANGED raised
    /\ UNCHANGED <<entry, max_chars, analysis, signals, supplied, variation,
                   warnings, comparison, weighted, original, optimized, delta,
                   text>>

NextMenu ==
    \/ MenuPrompt
    \/ PromptInterrupted
    \/ CopyOptimized
    \/ CopyOriginal
    \/ RefineInput
    \/ Refine
    \/ RunPhase2

SpecMenu == InitMenu /\ [][NextMenu]_vars

-----------------------------------------------------------------------------
(* Specification SpecPrompt: prompt_choice reading standard input.  The     *)
(* stream is the sequence of lines still to be read; once it is used up     *)
(* every read signals the end of input.                                     *)

DigitSeq == <<"0", "1", "2", "3", "4", "5", "6", "7", "8", "9">>

DigitValue(c) == (CHOOSE d \in 1..10 : DigitSeq[d] = c) - 1

\* str(k) of a natural number
RECURSIVE Str(_)
Str(k) ==
    IF k < 10 THEN <<DigitSeq[k + 1]>>
    ELSE Str(k \div 10) \o <<DigitSeq[(k % 10) + 1]>>

\* the value of the digits among the first k characters of s
RECURSIVE DigitsValue(_, _)
DigitsValue(s, k) ==
    IF k = 0 THEN 0
    ELSE IF s[k] = "_" THEN DigitsValue(s, k - 1)
    ELSE 10 * DigitsValue(s, k - 1) + DigitValue(s[k])

\* int(raw) of a trimmed string: an optional sign, then digits, which single
\* underscores may separate; anything else is a ValueError
ParseInt(raw) ==
    LET signed == Len(raw) > 0 /\ raw[1] \in {"+", "-"}
        body == IF signed THEN Tail(raw) ELSE raw
        valid ==
            /\ Len(body) > 0
            /\ \A i \in 1..Len(body) : body[i] \in Digits \cup {"_"}
            /\ body[1] # "_"
            /\ body[Len(body)] # "_"
            /\ \A i \in 1..(Len(body) - 1) : ~(body[i] = "_" /\ body[i + 1] = "_")
        magnitude == DigitsValue(body, Len(body))
    IN  [ok |-> valid,
         value |-> IF ~valid THEN 0
                   ELSE IF signed /\ raw[1] = "-" THEN 0 - magnitude
                   ELSE magnitude]

\* the test with 0 let through
InRange_from_zero(idx, n) == 0 <= idx /\ idx <= n

\* 1 <= idx <= len(options)
InRange(idx, n) == 1 <= idx /\ idx <= n

\* lines a user may type
Lines ==
    {<<>>, <<" ">>, <<"1">>, <<"2">>, <<"5">>, <<"6">>, <<"0">>, <<"-", "1">>,
     <<"+", "2">>, <<"0", "2">>, <<"1", "0">>, <<"1", "_", "1">>, <<"1", "2">>,
     <<"a">>, <<"2", "x">>, <<"1", ".", "0">>, <<" ", "3", " ">>}

\* input streams of at most MaxLines lines
Streams == UNION {[1..k -> Lines] : k \in 0..MaxLines}

\* len(options): the menu of phase 2 with one variation, the interactive
\* menu, the menu of phase 2 with ten variations
OptionCounts == {2, 5, 11}

InitPrompt ==
    /\ pc = "input"
    /\ entry = "prompt_choice"
    /\ \E n \in OptionCounts, stream \in Streams :
          cli = [n |-> n, stream |-> stream, eof |-> FALSE, line |-> <<>>,
                 returned |-> <<>>]
    /\ raised = "none"
    /\ IdleEngine

\* one pass of the try block: input() gives the next line or raises EOFError;
\* an empty line returns "1", an in-range number returns str(idx), and
\* everything else, a ValueError and an EOFError included, falls through to
\* the message
PromptInput ==
    /\ pc = "input"
    /\ IF cli.stream = <<>>
       THEN /\ cli' = [cli EXCEPT !.eof = TRUE, !.line = <<>>]
            /\ pc' = "reprompt"
       ELSE LET raw == Strip(Head(cli.stream))
                read == [cli EXCEPT !.stream = Tail(@), !.line = Head(cli.stream)]
                idx == ParseInt(raw)
            IN  IF raw = <<>>
                THEN /\ cli' = [read EXCEPT !.returned = <<"1">>]
                     /\ pc' = "returned"
                ELSE IF idx.ok /\ InRange(idx.value, cli.n)
                THEN /\ cli' = [read EXCEPT !.returned = Str(idx.value)]
                     /\ pc' = "returned"
                ELSE /\ cli' = read
                     /\ pc' = "reprompt"
    /\ UNCHANGED <<engine, raised>>

\* "Please enter a number between 1 and n", and the loop goes round
PromptAgain ==
    /\ pc = "reprompt"
    /\ pc' = "input"
    /\ UNCHANGED <<cli, engine, raised>>

\* an interrupt at input() is not caught
PromptKeyboardInterrupt ==
    /\ pc = "input"
    /\ raised' = "KeyboardInterrupt"
    /\ pc' = "raised"
    /\ UNCHANGED <<cli, engine>>

NextPrompt == PromptInput \/ PromptAgain \/ PromptKeyboardInterrupt

SpecPrompt == InitPrompt /\ [][NextPrompt]_vars

\* the interpreter keeps running the loop
SpecPromptFair == SpecPrompt /\ WF_vars(NextPrompt)

-----------------------------------------------------------------------------
(* Specification SpecClaude: call_claude, from the call to the return or    *)
(* the exception.  A prompt is known by its type and length, the output of  *)
(* the subprocess by what json.loads makes of it.                           *)

\* len(prompt) > 100000
MaxPromptLength == 100000

\* _DEFAULT_CONFIG["claude"]["timeout"]
DefaultTimeout == 120

\* a timeout in seconds
Seconds(n) == [seconds |-> n]

\* prompts: not a string, empty, of one character, of the longest length
\* allowed, one character longer
Prompts ==
    {[is_str |-> FALSE, len |-> 1]}
    \cup {[is_str |-> TRUE, len |-> l] : l \in {0, 1, MaxPromptLength, MaxPromptLength + 1}}

\* _validatePrompt: the prompt is refused
RejectsPrompt_no_limit(prompt) == prompt.len = 0 \/ ~prompt.is_str

RejectsPrompt(prompt) ==
    \/ prompt.len = 0
    \/ ~prompt.is_str
    \/ prompt.len > MaxPromptLength

\* result.stdout: blank or not, whether json.loads accepts it, the type of
\* the value it gives, and for an object the field "result"
Out(blank, parses, type, result) ==
    [blank |-> blank, parses |-> parses, type |-> type, result |-> result]

Stdouts ==
    {Out(TRUE, FALSE, "none", "missing"),
     Out(FALSE, FALSE, "none", "missing"),
     Out(FALSE, TRUE, "array", "missing"),
     Out(FALSE, TRUE, "string", "missing"),
     Out(FALSE, TRUE, "number", "missing"),
     Out(FALSE, TRUE, "null", "missing"),
     Out(FALSE, TRUE, "object", "missing"),
     Out(FALSE, TRUE, "object", "empty string"),
     Out(FALSE, TRUE, "object", "null"),
     Out(FALSE, TRUE, "object", "number"),
     Out(FALSE, TRUE, "object", "text")}

\* what subprocess.run does: the two exceptions call_claude catches, or a
\* completed process
Completions ==
    {[exception |-> e, returncode |-> 0, stdout |-> Out(TRUE, FALSE, "none", "missing")] :
        e \in {"FileNotFoundError", "TimeoutExpired"}}
    \cup {[exception |-> "none", returncode |-> c, stdout |-> o] :
            c \in {0, 1}, o \in Stdouts}

NotStarted == [exception |-> "none", returncode |-> 0 - 1,
               stdout |-> Out(TRUE, FALSE, "none", "missing")]

InitClaude ==
    /\ pc = "call_claude"
    /\ entry = "call_claude"
    /\ \E prompt \in Prompts, timeout \in {None, Seconds(30)} :
          cli = [prompt |-> prompt, timeout |-> timeout, started |-> FALSE,
                 result |-> NotStarted, returned |-> "nothing"]
    /\ raised = "none"
    /\ IdleEngine

\* prompt = _validatePrompt(prompt), and the timeout of the configuration
\* (120 by default) when none is given
ValidatePrompt ==
    /\ pc = "call_claude"
    /\ IF RejectsPrompt(cli.prompt)
       THEN /\ raised' = "OptimizationError"
            /\ pc' = "raised"
            /\ UNCHANGED cli
       ELSE /\ cli' = [cli EXCEPT !.timeout = IF @ = None THEN Seconds(DefaultTimeout)
                                               ELSE @]
            /\ pc' = "run"
            /\ UNCHANGED raised
    /\ UNCHANGED engine

\* subprocess.run(["claude", "-p", prompt, "--output-format", "json"], ...)
RunSubprocess ==
    /\ pc = "run"
    /\ \E result \in Completions :
          /\ cli' = [cli EXCEPT !.started = TRUE, !.result = result]
          /\ IF result.exception = "none"
             THEN /\ pc' = "completed"
                  /\ UNCHANGED raised
             ELSE /\ pc' = "raised"
                  /\ raised' = "OptimizationError"
    /\ UNCHANGED engine

\* the exception of the lines after subprocess.run, "none" when the text is
\* returned: cli_response.get is an attribute of a dict only
ResponseError(result) ==
    IF result.returncode # 0 THEN "OptimizationError"
    ELSE IF result.stdout.blank THEN "OptimizationError"
    ELSE IF ~result.stdout.parses THEN "OptimizationError"
    ELSE IF result.stdout.type # "object" THEN "AttributeError"
    ELSE IF result.stdout.result \in {"missing", "empty string", "null"}
    THEN "OptimizationError"
    ELSE "none"

ReadResponse ==
    /\ pc = "completed"
    /\ raised' = ResponseError(cli.result)
    /\ IF ResponseError(cli.result) = "none"
       THEN /\ cli' = [cli EXCEPT !.returned = cli.result.stdout.result]
            /\ pc' = "returned"
       ELSE /\ pc' = "raised"
            /\ UNCHANGED cli
    /\ UNCHANGED engine

NextClaude == ValidatePrompt \/ RunSubprocess \/ ReadResponse

SpecClaude == InitClaude /\ [][NextClaude]_vars

-----------------------------------------------------------------------------
(* Specification SpecConfig: the module config.py, its global _config and   *)
(* the calls of load_config and get.  A YAML value is a tagged record; a    *)
(* mapping is total over the keys of the model, with Missing for the keys   *)
(* it does not have.                                                        *)

Missing == [tag |-> "missing"]
Null == [tag |-> "null"]
Scalar(v) == [tag |-> "scalar", v |-> v]
ListValue == [tag |-> "list"]
Map(items) == [tag |-> "map", items |-> items]

\* the keys of _DEFAULT_CONFIG, in the order of the dictionary
Sections == <<"claude", "optimization", "display">>

SectionNames == {Sections[i] : i \in 1..Len(Sections)}

SubKeysOf ==
    [section \in SectionNames |->
        CASE section = "claude" -> <<"timeout", "output_format">>
          [] section = "optimization" -> <<"variations", "style", "lang", "max_chars">>
          [] section = "display" -> <<"bar_width", "show_all_signals", "top_signals_count">>]

SubKeys ==
    UNION {{SubKeysOf[s][i] : i \in 1..Len(SubKeysOf[s])} : s \in SectionNames}

DefaultValues ==
    [subkey \in SubKeys |->
        CASE subkey = "timeout" -> Scalar("120")
          [] subkey = "output_format" -> Scalar("json")
          [] subkey = "variations" -> Scalar("3")
          [] subkey = "style" -> Scalar("professional")
          [] subkey = "lang" -> Scalar("auto")
          [] subkey = "max_chars" -> Scalar("280")
          [] subkey = "bar_width" -> Scalar("24")
          [] subkey = "show_all_signals" -> Scalar("False")
          [] subkey = "top_signals_count" -> Scalar("8")]

EmptyItems == [subkey \in SubKeys |-> Missing]

_DEFAULT_CONFIG ==
    [section \in SectionNames |->
        Map([subkey \in SubKeys |->
                IF \E i \in 1..Len(SubKeysOf[section]) : SubKeysOf[section][i] = subkey
                THEN DefaultValues[subkey] ELSE Missing])]

\* _config = None
Unloaded == [tag |-> "None"]

\* {}
EmptyConfig == Map([section \in SectionNames |-> Missing])

\* what the file may say of a section: nothing, a key without a value, an
\* empty mapping, a value of its own for the first sub-key, an explicit null
\* for it
SectionChoices(section) ==
    {Missing, Null, Map(EmptyItems),
     Map([EmptyItems EXCEPT ![SubKeysOf[section][1]] = Scalar("from file")]),
     Map([EmptyItems EXCEPT ![SubKeysOf[section][1]] = Null])}

\* config.yaml: absent, unreadable, not YAML, or the value yaml.safe_load
\* gives: None for an empty file, a list, a string, a mapping
ConfigFiles ==
    {[kind |-> k, value |-> Null] : k \in {"missing", "unreadable", "yaml error"}}
    \cup {[kind |-> "parsed", value |-> v] : v \in {Null, ListValue, Scalar("hello")}}
    \cup {[kind |-> "parsed", value |-> Map(top)] :
            top \in {t \in [SectionNames -> UNION {SectionChoices(s) : s \in SectionNames}] :
                        \A s \in SectionNames : t[s] \in SectionChoices(s)}}

\* bool(value) is False
Falsy(value) ==
    \/ value.tag = "null"
    \/ value.tag = "map" /\ \A k \in DOMAIN value.items : value.items[k].tag = "missing"

\* _config[key].setdefault(subkey, subvalue) for every sub-key of the section
SetDefaults(section, defaults) ==
    Map([subkey \in SubKeys |->
            IF section.items[subkey].tag = "missing" THEN defaults.items[subkey]
            ELSE section.items[subkey]])

\* the loop over _DEFAULT_CONFIG.items() from the i-th key on, which changes
\* _config in place and stops where an exception is raised
RECURSIVE Fill(_, _)
Fill(config, i) ==
    IF i > Len(Sections) THEN [config |-> config, error |-> "none"]
    ELSE LET key == Sections[i]
         IN  IF config.tag # "map"
             THEN [config |-> config, error |-> "TypeError"]
             ELSE IF config.items[key].tag = "missing"
             THEN Fill(Map([config.items EXCEPT ![key] = _DEFAULT_CONFIG[key]]), i + 1)
             ELSE IF config.items[key].tag # "map"
             THEN [config |-> config, error |-> "AttributeError"]
             ELSE Fill(Map([config.items EXCEPT
                               ![key] = SetDefaults(@, _DEFAULT_CONFIG[key])]), i + 1)

\* "_config is None" is false
Cached(config) == config.tag # "None"

\* load_config(): the new _config, whether the file was read, and the
\* exception raised ("none": _config is returned)
load_config(file, config) ==
    IF Cached(config) THEN [config |-> config, read |-> 0, error |-> "none"]
    ELSE LET loaded == IF file.kind # "parsed" \/ Falsy(file.value)
                       THEN EmptyConfig ELSE file.value
             filled == Fill(loaded, 1)
         IN  [config |-> filled.config, read |-> 1, error |-> filled.error]

InitConfig ==
    /\ pc = "config"
    /\ entry = "load_config"
    /\ \E file \in ConfigFiles :
          cli = [file |-> file, _config |-> Unloaded, reads |-> 0, calls |-> 0,
                 returned |-> {}, got |-> Missing]
    /\ raised = "none"
    /\ IdleEngine

\* a call of load_config()
LoadConfig ==
    /\ pc = "config"
    /\ cli.calls < MaxConfigCalls
    /\ LET r == load_config(cli.file, cli._config)
       IN  /\ cli' = [cli EXCEPT !._config = r.config,
                                 !.reads = @ + r.read,
                                 !.calls = @ + 1,
                                 !.returned = IF r.error = "none"
                                              THEN @ \cup {r.config} ELSE @]
           /\ raised' = r.error
    /\ UNCHANGED <<pc, engine>>

\* a call of get(key, default): load_config().get(key, default)
GetValue ==
    /\ pc = "config"
    /\ cli.calls < MaxConfigCalls
    /\ \E key \in SectionNames \cup {"other"} :
          LET r == load_config(cli.file, cli._config)
              called == [cli EXCEPT !._config = r.config,
                                    !.reads = @ + r.read,
                                    !.calls = @ + 1]
          IN  IF r.error # "none"
              THEN /\ cli' = called
                   /\ raised' = r.error
              ELSE IF r.config.tag # "map"
              THEN /\ cli' = [called EXCEPT !.returned = @ \cup {r.config}]
                   /\ raised' = "AttributeError"
              ELSE /\ cli' = [called EXCEPT
                                 !.returned = @ \cup {r.config},
                                 !.got = IF key \in SectionNames
                                            /\ r.config.items[key].tag # "missing"
                                         THEN r.config.items[key]
                                         ELSE Map(EmptyItems)]
                   /\ raised' = "none"
    /\ UNCHANGED <<pc, engine>>

NextConfig == LoadConfig \/ GetValue

SpecConfig == InitConfig /\ [][NextConfig]_vars

-----------------------------------------------------------------------------
(* Properties *)

\* sum over the catalog of probability times weight, in units of 10^-5
WeightedSum(v) == SumOver(Actions, [a \in Actions |-> v[a] * ACTION_WEIGHTS[a]])

\* C1: the weighted score of a signal vector is the sum over the 19 catalog
\* ids of probability times weight when that sum is not negative, and exactly
\* twice the sum when it is negative; nothing else is applied to it.
C1_WeightedScore ==
    pc \in {"aggregated", "compared"} =>
        weighted = IF WeightedSum(optimized) < 0
                   THEN 2 * WeightedSum(optimized)
                   ELSE WeightedSum(optimized)

\* the vector whose only non-zero entry is report = 0.01 scored 2 * -92.09
C1_Witness ==
    /\ pc = "aggregated"
    /\ optimized = ProbeVector(0, "report_score", 100, 0)
    /\ weighted = -18418000

\* C2: every one of the 19 values score_tweet returns lies in [0.0, 1.0].
C2_SignalsInRange ==
    pc \in {"scored", "done"} =>
        /\ DOMAIN signals = Actions
        /\ \A a \in Actions : 0 <= signals[a] /\ signals[a] <= 10000

\* a text with every favorite and reply bonus has been scored
C2_Witness ==
    /\ pc = "scored"
    /\ signals.favorite_score = 7500
    /\ signals.reply_score = 7800

\* C3: for a negative-polarity signal with original > 0 the direction is
\* "improved" when the candidate is below the original and "worse" when it is
\* above; for a positive-polarity signal the direction is "improved" exactly
\* when the percentage change is positive.
C3_Direction ==
    pc = "compared" =>
        \A a \in Actions :
            LET orig == Get(original, a, 0)
                opt == Get(optimized, a, 0)
            IN  /\ (a \in NEGATIVE_ACTIONS /\ orig > 0 /\ opt < orig)
                      => delta[a].direction = "improved"
                /\ (a \in NEGATIVE_ACTIONS /\ orig > 0 /\ opt > orig)
                      => delta[a].direction = "worse"
                /\ a \notin NEGATIVE_ACTIONS
                      => (delta[a].direction = "improved"
                            <=> \/ (orig = 0 /\ opt > 0)
                                \/ (orig > 0 /\ opt > orig)
                                \/ (orig < 0 /\ opt < orig))

\* report 0.20 -> 0.05 is improved while favorite 0.20 -> 0.05 is worse
C3_Witness ==
    /\ pc = "compared"
    /\ original["report_score"] = 2000
    /\ optimized["report_score"] = 500
    /\ delta["report_score"].direction = "improved"
    /\ original["favorite_score"] = 2000
    /\ optimized["favorite_score"] = 0
    /\ delta["favorite_score"].direction = "worse"

\* C4: in every entry compute_delta produces, a reported delta_pct of 0 is
\* never accompanied by the direction "improved".
C4_ZeroDeltaNotImproved ==
    pc = "compared" =>
        \A a \in Actions :
            delta[a].delta_pct = 0 => delta[a].direction # "improved"

\* C5 as claimed: original = 0 and candidate > 0 gives 100.0 and is_new;
\* original = 0 and candidate = 0 gives 0.0; every other case gives exactly
\* (candidate - original) / original * 100; is_new in no other case.
C5_Claimed ==
    pc = "compared" =>
        \A a \in Actions :
            LET orig == Get(original, a, 0)
                opt == Get(optimized, a, 0)
                e == delta[a]
            IN  IF orig = 0 /\ opt > 0
                THEN e.delta_pct = 1000 /\ e.is_new
                ELSE IF orig = 0 /\ opt = 0
                THEN e.delta_pct = 0 /\ ~e.is_new
                ELSE e.delta_pct * orig = (opt - orig) * 1000 /\ ~e.is_new

\* C5 as amended: original = 0 and candidate > 0 gives 100.0 and is_new;
\* original = 0 and candidate <= 0 gives 0.0; original # 0 gives
\* (candidate - original) / original * 100 rounded to one decimal (at most
\* 0.05 away from it); is_new in no other case than the first.
C5_DeltaRule ==
    pc = "compared" =>
        \A a \in Actions :
            LET orig == Get(original, a, 0)
                opt == Get(optimized, a, 0)
                e == delta[a]
                err == e.delta_pct * orig - (opt - orig) * 1000
            IN  /\ e.original = orig
                /\ e.optimized = opt
                /\ IF orig = 0 /\ opt > 0
                   THEN e.delta_pct = 1000 /\ e.is_new
                   ELSE IF orig = 0
                   THEN e.delta_pct = 0 /\ ~e.is_new
                   ELSE /\ 2 * err <= orig
                        /\ 0 - orig <= 2 * err
                        /\ ~e.is_new

\* all three cases in one comparison: a new signal (reply), a changed one
\* (report, 0.25 -> 0.0 is -100%) and one that is 0 on both sides
C5_Witness ==
    /\ pc = "compared"
    /\ "reply_score" \notin DOMAIN original
    /\ optimized["reply_score"] = 2500
    /\ delta["reply_score"].is_new
    /\ delta["reply_score"].delta_pct = 1000
    /\ optimized["report_score"] = 0
    /\ original["report_score"] = 2500
    /\ delta["report_score"].delta_pct = -1000
    /\ \E a \in Actions :
          /\ Get(original, a, 0) = 0
          /\ optimized[a] = 0
          /\ delta[a].delta_pct = 0
          /\ ~delta[a].is_new

\* C6: comparing a feature record against its own heuristic estimate gives,
\* for each of the 19 signals, delta_pct = 0.0 and is_new = false, and a
\* weighted_score_change of 0.
C6_RoundTrip ==
    pc = "done" =>
        /\ \A a \in Actions :
              /\ comparison.delta[a].delta_pct = 0
              /\ ~comparison.delta[a].is_new
        /\ comparison.weighted_score_change = 0

\* a round trip whose weighted score is not a whole number of hundredths
C6_Witness ==
    /\ pc = "done"
    /\ comparison.optimized.signals = signals
    /\ comparison.original.signals = signals
    /\ comparison.weighted_score_original = comparison.weighted_score_optimized
    /\ compute_weighted_score(signals, FALSE) % 1000 # 0

\* the generator returned a variation with a scores mapping
HasMapping == supplied # None /\ "scores" \in DOMAIN supplied

\* the catalog ids the returned mapping lacks
MissingIds == Actions \ DOMAIN supplied.scores

\* C7: for a variation whose scores mapping lacks some catalog ids, validation
\* emits one warning naming exactly the missing ids and does not fail; the
\* mapping is untouched until the warnings are computed, and only the fill-in
\* step then sets each missing id, and no other, to 0.0, which is the value
\* the comparison sees for exactly those ids.
C7_MissingWarnedThenFilled ==
    (HasMapping /\ MissingIds # {}) =>
        /\ pc \in {"validate", "fill"} => variation = supplied
        /\ pc \in {"fill", "compare", "report", "done", "raised"} =>
              /\ Warning("Missing scores", MissingIds, "", 0) \in warnings
              /\ \A w \in warnings :
                    w.kind = "Missing scores" => w.ids = MissingIds
        /\ pc \in {"compare", "report", "done", "raised"} =>
              /\ DOMAIN variation.scores = Actions
              /\ \A a \in MissingIds : variation.scores[a] = Number(0)
              /\ \A a \in Actions \ MissingIds :
                    variation.scores[a] = supplied.scores[a]
        /\ pc = "raised" =>
              /\ raised = "TypeError"
              /\ \E a \in DOMAIN supplied.scores : ~supplied.scores[a].numeric
        /\ pc \in {"report", "done"} =>
              /\ comparison # None
              /\ \A a \in MissingIds :
                    /\ comparison.delta[a].optimized = 0
                    /\ comparison.optimized.signals[a] = 0
              /\ \A a \in Actions \ MissingIds :
                    comparison.delta[a].optimized = supplied.scores[a].value

\* reply and report were missing, were warned about, and are compared as 0.0
C7_Witness ==
    /\ pc = "done"
    /\ HasMapping
    /\ MissingIds = {"reply_score", "report_score"}
    /\ Warning("Missing scores", {"reply_score", "report_score"}, "", 0) \in warnings
    /\ comparison.delta["reply_score"].optimized = 0
    /\ comparison.delta["report_score"].optimized = 0
    /\ comparison.delta["favorite_score"].optimized = 2500

\* the candidate vector the comparison has to use: the supplied numbers, 0.0
\* for the ids the generator left out
SuppliedVector == [a \in Actions |-> Get(Values(supplied.scores), a, 0)]

\* C8: a supplied value that is numeric and outside [0.0, 1.0] is warned
\* about under its id and used unchanged: it is the optimized value of the
\* delta entry, and the candidate weighted score is computed from it.
C8_OutOfRangeUsedAsIs ==
    HasMapping =>
        \A a \in DOMAIN supplied.scores :
            LET v == supplied.scores[a].value
            IN  (supplied.scores[a].numeric /\ (v < 0 \/ v > 10000)) =>
                    /\ pc \in {"fill", "compare", "report", "done", "raised"} =>
                          Warning("Score out of range", {}, a, v) \in warnings
                    /\ pc \in {"compare", "report", "done"} =>
                          variation.scores[a] = Number(v)
                    /\ pc \in {"report", "done"} =>
                          /\ comparison.delta[a].optimized = v
                          /\ comparison.optimized.signals[a] = v
                          /\ LET sum == WeightedSum(SuppliedVector)
                                 score == IF sum < 0 THEN 2 * sum ELSE sum
                             IN  /\ weighted = score
                                 /\ comparison.weighted_score_optimized
                                      = RoundHalfEven(score, 1000)
                                 /\ comparison.optimized.weighted_score
                                      = RoundHalfEven(score, 1000)

\* reply = 1.05 was warned about and compared as 1.05
C8_Witness ==
    /\ pc = "done"
    /\ HasMapping
    /\ "reply_score" \in DOMAIN supplied.scores
    /\ supplied.scores["reply_score"] = Number(10500)
    /\ Warning("Score out of range", {}, "reply_score", 10500) \in warnings
    /\ comparison.delta["reply_score"].optimized = 10500

\* the comparison holds an entry with all five fields for each catalog id,
\* and the weighted scores
FullyPopulated(c) ==
    /\ c # None
    /\ DOMAIN c.delta = Actions
    /\ \A a \in Actions :
          DOMAIN c.delta[a] = {"original", "optimized", "delta_pct", "direction", "is_new"}
    /\ {"weighted_score_original", "weighted_score_optimized", "weighted_score_change"}
          \subseteq DOMAIN c

\* C9: a variation that triggers a validation warning never blocks the
\* result: the operation does not raise and ends with a fully populated
\* comparison for that variation, never a null one.
C9_WarningsNeverBlock ==
    (supplied # None /\ warnings # {}) =>
        /\ pc # "raised"
        /\ pc = "done" => FullyPopulated(comparison)

\* C10: every comparison report holds, besides the per-signal deltas and the
\* weighted-score change, the aggregates of the five categories.
C10_CategoryAggregates ==
    (pc \in {"report", "done"} /\ comparison # None) =>
        /\ "category_delta" \in DOMAIN comparison
        /\ DOMAIN comparison.category_delta =
              {"engagement", "discoverability", "shareability", "content_quality",
               "safety"}

\* the feature predicates of the estimator table
Gate(a) ==
    [power_any |-> a.power_word_count > 0,
     power_two |-> a.power_word_count >= 2,
     question |-> a.has_question,
     question_and_power |-> a.has_question /\ a.power_word_count > 0,
     emoji |-> a.emoji_count > 0,
     util_below_15 |-> a.char_utilization < 150,
     util_over_50 |-> a.char_utilization > 500,
     util_over_60 |-> a.char_utilization > 600,
     util_over_70 |-> a.char_utilization > 700,
     media |-> a.has_media,
     cta |-> a.has_cta,
     cta_over_2 |-> a.cta_count > 2,
     lines_3 |-> a.line_count >= 3,
     lines_4 |-> a.line_count >= 4,
     numbers |-> a.has_numbers,
     sweet_spot |-> 100 < a.char_count /\ a.char_count < 200,
     list |-> a.has_list_format,
     url |-> a.has_url,
     url_and_power |-> a.power_word_count > 0 /\ a.has_url,
     hook |-> a.has_hook,
     hashtags_over_3 |-> a.hashtag_count > 3,
     hashtags_over_5 |-> a.hashtag_count > 5]

\* one bonus of the table: its gate and its increment; the two scaled
\* increments are min(count * 0.08, 0.25) and 0.15 * min(question_count, 3)
Add(gate, amount) == [gate |-> gate, amount |-> amount, scaled |-> "no"]
AddPowerWords == [gate |-> "power_any", amount |-> 0, scaled |-> "power_words"]
AddQuestions == [gate |-> "question", amount |-> 0, scaled |-> "questions"]

Row(base, bonuses) == [constant |-> FALSE, base |-> base, bonuses |-> bonuses]
ConstantRow(value) == [constant |-> TRUE, base |-> value, bonuses |-> {}]

\* the table of section 4.2 of the specification
EstimatorTable ==
    [favorite_score |->
        Row(2000, {AddPowerWords, Add("question", 500), Add("emoji", 500),
                   Add("util_over_50", 1000), Add("media", 1000)}),
     reply_score |->
        Row(1000, {AddQuestions, Add("cta", 1000), Add("power_any", 800),
                   Add("lines_3", 500)}),
     repost_score |->
        Row(1500, {Add("numbers", 1200), Add("power_two", 1000),
                   Add("sweet_spot", 800), Add("list", 500)}),
     photo_expand_score |-> Row(500, {Add("media", 5000)}),
     click_score |-> Row(500, {Add("url", 3500), Add("url_and_power", 1000)}),
     profile_click_score |->
        Row(1000, {Add("power_two", 1000), Add("numbers", 800),
                   Add("util_over_60", 500)}),
     vqv_score |-> Row(200, {Add("media", 1500)}),
     share_score |->
        Row(1000, {Add("list", 1500), Add("numbers", 1000), Add("power_any", 500),
                   Add("util_over_50", 500)}),
     share_via_dm_score |->
        Row(500, {Add("power_two", 1200), Add("numbers", 800),
                  Add("question_and_power", 1000), Add("util_over_60", 500)}),
     share_via_copy_link_score |->
        Row(500, {Add("list", 1200), Add("numbers", 800), Add("util_over_70", 500)}),
     dwell_score |->
        Row(1500, {Add("hook", 1500), Add("lines_3", 1000),
                   Add("util_over_50", 1000)}),
     quote_score |->
        Row(800, {Add("power_two", 1200), Add("numbers", 800), Add("question", 500)}),
     quoted_click_score |-> ConstantRow(500),
     follow_author_score |->
        Row(800, {Add("numbers", 800), Add("power_two", 800),
                  Add("util_over_60", 500)}),
     not_interested_score |->
        Row(1000, {Add("hashtags_over_3", 1500), Add("util_below_15", 1000),
                   Add("cta_over_2", 800)}),
     block_author_score |-> Row(300, {Add("hashtags_over_5", 500)}),
     mute_author_score |-> Row(500, {Add("hashtags_over_3", 500)}),
     report_score |-> ConstantRow(200),
     dwell_time |->
        Row(1500, {Add("lines_4", 1500), Add("util_over_60", 1500),
                   Add("hook", 1000), Add("list", 1000)})]

\* the increment of one bonus on the feature record a whose gates are g,
\* 0 when its gate fails
Increment(b, a, g) ==
    IF ~g[b.gate] THEN 0
    ELSE IF b.scaled = "power_words" THEN Min(a.power_word_count * 800, 2500)
    ELSE IF b.scaled = "questions" THEN 1500 * Min(a.question_count, 3)
    ELSE b.amount

RECURSIVE SumIncrements(_, _, _)
SumIncrements(B, a, g) ==
    IF B = {} THEN 0
    ELSE LET b == CHOOSE x \in B : TRUE
         IN  Increment(b, a, g) + SumIncrements(B \ {b}, a, g)

\* the table's value of signal s on the feature record a whose gates are g
Reference(s, a, g) ==
    LET row == EstimatorTable[s]
    IN  IF row.constant THEN row.base
        ELSE Max(0, Min(10000, row.base + SumIncrements(row.bonuses, a, g)))

\* C11: each of the 19 values score_tweet returns is the table's value: the
\* signal's base plus every bonus whose feature predicate holds, clamped to
\* [0, 1]; quoted_click is constantly 0.05 and report constantly 0.02.
C11_TableValues ==
    pc \in {"scored", "done"} =>
        /\ DOMAIN signals = Actions
        /\ LET g == Gate(analysis)
           IN  \A s \in Actions : signals[s] = Reference(s, analysis, g)
        /\ signals.quoted_click_score = 500
        /\ signals.report_score = 200

\* both scaled bonuses at their caps (4 power words, 4 question marks)
\* together with every other bonus of reply, and the constants
C11_Witness ==
    /\ pc = "scored"
    /\ analysis.power_word_count = 4
    /\ analysis.question_count = 4
    /\ analysis.has_cta
    /\ analysis.line_count >= 3
    /\ signals.reply_score = 7800
    /\ signals.favorite_score >= 5000
    /\ signals.quoted_click_score = 500

\* analyze has returned the feature record of text
Analyzed == entry = "analyze" /\ pc \in {"start", "scored"}

\* C12 as claimed: on the example text, without media and with max_chars =
\* 280, the language is "en", has_hook and has_question hold, question_count
\* is 1 and reply_score is 0.25.
C12_Claimed ==
    (Analyzed /\ pc = "scored" /\ text = ExampleText /\ ~analysis.has_media /\ max_chars = 280) =>
        /\ analysis.lang = "en"
        /\ analysis.has_hook
        /\ analysis.has_question
        /\ analysis.question_count = 1
        /\ signals.reply_score = 2500

\* C12 as amended: on the example text, without media and with max_chars =
\* 280, the language is "en", has_hook and has_question hold, question_count
\* is 1, the power word "thread" is found, no CTA matches, and reply_score
\* is 0.33: base 0.10, question bonus 0.15 and power-word bonus 0.08.
C12_Example ==
    (Analyzed /\ pc = "scored" /\ text = ExampleText /\ ~analysis.has_media /\ max_chars = 280) =>
        /\ analysis.lang = "en"
        /\ analysis.has_hook
        /\ analysis.has_question
        /\ analysis.question_count = 1
        /\ analysis.power_words_found = <<<<"t", "h", "r", "e", "a", "d">>>>
        /\ ~analysis.has_cta
        /\ analysis.line_count = 1
        /\ signals.reply_score = 3300

\* the example text was analysed and scored
C12_Witness ==
    /\ Analyzed
    /\ pc = "scored"
    /\ text = ExampleText
    /\ ~analysis.has_media
    /\ max_chars = 280
    /\ analysis.power_word_count = 1
    /\ signals.reply_score = 3300

\* the sum of the lengths of the strings of a sequence
RECURSIVE TotalLen(_)
TotalLen(ws) == IF ws = <<>> THEN 0 ELSE Len(Head(ws)) + TotalLen(Tail(ws))

\* the text is six hashtags and, between and around them, white space only
SixHashtagsOnly ==
    /\ Len(analysis.hashtags) = 6
    /\ TotalLen(analysis.hashtags)
         + Cardinality({i \in 1..Len(text) : IsSpace(text[i])}) = Len(text)

\* C13 as claimed: for a text of six hashtags and nothing else, with
\* max_chars = 280, not_interested_score is 0.25 and block_author_score 0.08.
C13_Claimed ==
    (Analyzed /\ pc = "scored" /\ max_chars = 280 /\ SixHashtagsOnly) =>
        /\ signals.not_interested_score = 2500
        /\ signals.block_author_score = 800

\* the CTA patterns of the detected language that are one of the hashtags,
\* lower-cased
CtaHashtags ==
    LET patterns == IF analysis.lang = "tr" THEN _CTA_PATTERNS_TR
                    ELSE _CTA_PATTERNS_EN
    IN  {k \in 1..Len(patterns) :
            \E h \in 1..Len(analysis.hashtags) :
                ToLower(analysis.hashtags[h]) = <<"#">> \o patterns[k]}

\* C13 as amended: for a text of six hashtags and nothing else, with
\* max_chars = 280, block_author_score is 0.08 and not_interested_score is
\* 0.25, plus 0.10 when the text is shorter than 42 characters (utilization
\* below 15), plus 0.08 when more than two distinct CTA words are hashtags
\* (cta_count above 2).
C13_SixHashtags ==
    (Analyzed /\ pc = "scored" /\ max_chars = 280 /\ SixHashtagsOnly) =>
        /\ signals.block_author_score = 800
        /\ signals.not_interested_score =
              2500 + (IF Len(text) < 42 THEN 1000 ELSE 0)
                   + (IF Cardinality(CtaHashtags) > 2 THEN 800 ELSE 0)

\* "#follow #share #like #ai #ai #ai": short, with three CTA words
C13_Witness ==
    /\ Analyzed
    /\ pc = "scored"
    /\ max_chars = 280
    /\ SixHashtagsOnly
    /\ Len(text) = 32
    /\ Cardinality(CtaHashtags) = 3
    /\ signals.not_interested_score = 4300
    /\ signals.block_author_score = 800

\* C14: given an empty or whitespace-only text, analyze reports an input
\* error and returns no feature record.
C14_RejectsEmptyText ==
    (Analyzed /\ Strip(text) = <<>>) =>
        /\ raised = "InputError"
        /\ analysis = None

\* C16: char_count is the length of the text, and char_utilization is
\* char_count / max_chars * 100 rounded to one decimal (at most 0.05 away
\* from it), max_chars being the configured maximum; it is not negative.
C16_CharUtilization ==
    Analyzed =>
        LET err == analysis.char_utilization * max_chars - Len(text) * 1000
        IN  /\ analysis.char_count = Len(text)
            /\ 2 * err <= max_chars
            /\ 0 - max_chars <= 2 * err
            /\ analysis.char_utilization >= 0

\* the 41 characters of the example text are 29.3% of a maximum of 140
C16_Witness ==
    /\ Analyzed
    /\ pc = "start"
    /\ text = ExampleText
    /\ max_chars = 140
    /\ analysis.char_count = 41
    /\ analysis.char_utilization = 293

\* the letters of the Turkish alphabet that ASCII lacks, small and capital
TurkishLetters ==
    {"U+00E7", "U+011F", "U+0131", "U+00F6", "U+015F", "U+00FC",
     "U+00C7", "U+011E", "U+0130", "U+00D6", "U+015E", "U+00DC"}

\* the stop words that occur as whole words in the lower-cased text
StopWordsIn(s) ==
    {k \in 1..Len(trWords) : SearchWord(trWords[k], ToLower(s))}

\* C17: a text with a Turkish letter is "tr" whatever its words; a text with
\* none is "tr" exactly when at least 3 stop words occur in it as whole
\* words, lower-cased, and "en" otherwise.
C17_TwoStageLanguage ==
    Analyzed =>
        analysis.lang =
            IF \E i \in 1..Len(text) : text[i] \in TurkishLetters THEN "tr"
            ELSE IF Cardinality(StopWordsIn(text)) >= 3 THEN "tr"
            ELSE "en"

\* colon, question mark, exclamation mark, ellipsis, em-dash and the two
\* pictographs (pointing down, thread)
TerminalMarkers ==
    {<<":">>, <<"?">>, <<"!">>, <<".", ".", ".">>, <<"U+2014">>, <<"U+1F447">>,
     <<"U+1F9F5">>}

\* the first line that is not blank, trimmed; empty when there is none
FirstLine(s) ==
    LET ls == SplitLines(s)
        nonblank == {i \in 1..Len(ls) : Strip(ls[i]) # <<>>}
    IN  IF nonblank = {} THEN <<>>
        ELSE Strip(ls[CHOOSE i \in nonblank : \A j \in nonblank : i <= j])

\* C18: has_hook holds exactly when the first non-empty line, trimmed, ends
\* with one of the terminal markers or is shorter than 60 characters.
C18_HookRule ==
    Analyzed =>
        (analysis.has_hook <=>
            \/ \E m \in TerminalMarkers : EndsWith(FirstLine(text), m)
            \/ Len(FirstLine(text)) < 60)

\* the entries of a catalog that satisfy occurs, as the set of their places
Places(catalog, occurs(_)) == {k \in 1..Len(catalog) : occurs(catalog[k])}

\* C19: the CTA patterns and the power words are those of the detected
\* language; power_words_found holds each power word that occurs in the
\* lower-cased text, once, in catalog order; power_word_count is its length;
\* cta_count is the number of CTA patterns that match; has_cta is
\* cta_count > 0.
C19_CatalogMatches ==
    Analyzed =>
        LET turkish == analysis.lang = "tr"
            words == IF turkish THEN _POWER_WORDS_TR ELSE _POWER_WORDS_EN
            patterns == IF turkish THEN _CTA_PATTERNS_TR ELSE _CTA_PATTERNS_EN
            lower == ToLower(text)
            Occurs(w) == Contains(w, lower)
            Matches(w) == SearchWord(w, lower)
            found == analysis.power_words_found
            places == Places(words, Occurs)
        IN  /\ Len(found) = Cardinality(places)
            /\ \A k \in places :
                  found[Cardinality({j \in places : j <= k})] = words[k]
            /\ \A i \in 1..Len(found) : \A j \in 1..Len(found) :
                  found[i] = found[j] => i = j
            /\ analysis.power_word_count = Len(found)
            /\ analysis.cta_count = Cardinality(Places(patterns, Matches))
            /\ analysis.has_cta <=> analysis.cta_count > 0

\* "bir bu ve dur asla": Turkish by its stop words; the power words are
\* listed as asla, dur, the order of the catalog and not of the text
C19_Witness ==
    /\ Analyzed
    /\ pc = "start"
    /\ text = <<"b", "i", "r", " ", "b", "u", " ", "v", "e", " ", "d", "u", "r", " ",
                "a", "s", "l", "a">>
    /\ analysis.lang = "tr"
    /\ analysis.power_words_found = <<<<"a", "s", "l", "a">>, <<"d", "u", "r">>>>
    /\ analysis.power_word_count = 2
    /\ analysis.cta_count = 0

-----------------------------------------------------------------------------
(* main and the interactive menu *)

\* the tweet text of the command line is missing, empty or white space only:
\* of the positional argument when no file is named, of the file otherwise
NoTweetText(c) ==
    IF c.file.kind = "absent"
    THEN ~c.tweet.given \/ Strip(c.tweet.chars) = <<>>
    ELSE c.file.kind # "readable" \/ Strip(c.file.contents) = <<>>

\* C15: when the tweet text (the positional argument, or the contents of the
\* file when --file is given) is missing, empty or white space only, main
\* never reaches the dispatch to a pipeline operation, no operation (optimize,
\* optimize_preserve_style, analyze, the generator call) is invoked, and the
\* process ends with status 1, whatever the output mode.
C15_EmptyTextRejected ==
    (entry = "main" /\ NoTweetText(cli)) =>
        /\ cli.calls = {}
        /\ pc \in {"main", "check", "exited"}
        /\ pc = "exited" => (cli.exited /\ cli.status = 1)
        /\ cli.exited => pc = "exited"

\* main has ended on a positional argument of white space, in JSON mode,
\* with status 1 and without a call
C15_Witness ==
    /\ entry = "main"
    /\ pc = "exited"
    /\ cli.file.kind = "absent"
    /\ cli.tweet.given
    /\ Len(cli.tweet.chars) > 0
    /\ Strip(cli.tweet.chars) = <<>>
    /\ cli.json_output
    /\ cli.status = 1
    /\ cli.calls = {}

\* C20: the menu has exactly two ways out.  After the choices 1, 2 and 4 the
\* menu is shown again: the session is never outside the menu with one of
\* them as its last choice.  Choice 3 runs phase 2 exactly once and leaves
\* the menu, never showing it again.  Choice 5 leaves the menu without a
\* call of the optimizer.  The menu is left by a return after 3 or 5 only.
C20_TwoWaysOut ==
    entry = "_interactive_menu" =>
        /\ pc \in {"left", "raised"} => cli.choice \notin {1, 2, 4}
        /\ cli.choice = 3 => pc \in {"phase2", "left", "raised"}
        /\ (cli.choice = 3 /\ pc # "phase2") => cli.optimize_calls = 1
        /\ cli.choice = 5 => (pc = "left" /\ cli.optimize_calls = 0)
        /\ pc = "left" => cli.choice \in {3, 5}

\* one step of a session, as C21 allows it
C21_Step ==
    entry = "_interactive_menu" =>
        /\ cli'.current_tweet # cli.current_tweet =>
              /\ pc = "refining"
              /\ cli'.produced # cli.produced
              /\ cli'.current_tweet = cli'.produced
        /\ pc = "refine_input" => pc' \in {"menu", "refining"}
        /\ (pc = "refining" /\ cli'.produced = cli.produced /\ raised' = "none") =>
              pc' = "menu"
        /\ (pc = "copy_optimized" /\ cli'.clipboard # cli.clipboard) =>
              cli'.clipboard = Clip("current_tweet", cli.produced)

\* C21: the current tweet changes only in a refinement that returned a tweet,
\* and to that tweet; an empty feedback, the end of input, an interrupt at the
\* feedback prompt or an OptimizationError of refine_tweet leaves it as it
\* was and shows the menu again; a copy of choice 1 puts the tweet produced
\* last on the clipboard.
C21_CurrentTweet == [][C21_Step]_vars

\* a refinement has failed, the menu came back and choice 1 then copied the
\* tweet of phase 1
C21_Witness ==
    /\ entry = "_interactive_menu"
    /\ pc = "menu"
    /\ cli.refine_calls >= 1
    /\ cli.choice = 1
    /\ cli.current_tweet = 1
    /\ cli.clipboard = Clip("current_tweet", 1)

\* C22: the original tweet of a session never changes: every call of
\* refine_tweet and the run of phase 2 are given it as the original, the
\* report they return is the report of its text, and choice 4 copies it.
C22_OriginalKept ==
    entry = "_interactive_menu" =>
        /\ cli.original_tweet = 0
        /\ cli.baselines \subseteq {0}
        /\ cli.clipboard.source = "original_tweet" => cli.clipboard.version = 0
        /\ report # None =>
              report = full_score_report(analyze(text, cli.media, max_chars),
                                         cli.media)

\* after a refinement that failed, a second one has returned its report
C22_Witness ==
    /\ entry = "_interactive_menu"
    /\ cli.refine_calls >= 2
    /\ cli.baselines = {0}
    /\ report # None

-----------------------------------------------------------------------------
(* prompt_choice *)

\* the trimmed line spells the number k: str(k), possibly after a plus sign
\* and zeros, with single underscores between digits
Spells(raw, k) ==
    LET unsigned == IF Len(raw) > 0 /\ raw[1] = "+" THEN Tail(raw) ELSE raw
        digits == SelectSeq(unsigned, LAMBDA c : c # "_")
        zeros == {i \in 0..Len(digits) : \A j \in 1..i : digits[j] = "0"}
    IN  /\ ParseInt(raw).ok
        /\ \E i \in zeros : SubSeq(digits, i + 1, Len(digits)) = Str(k)

\* C23: when prompt_choice has returned for a menu of n options, the key is
\* the decimal string of an integer in 1..n: "1" for an empty line, the
\* number itself for a line that spells a number in 1..n; and when it asks
\* again, the line read was no such line (or the input had ended).
C23_ReturnedKey ==
    entry = "prompt_choice" =>
        LET raw == Strip(cli.line)
        IN  /\ pc = "returned" =>
                  /\ \E k \in 1..cli.n : cli.returned = Str(k)
                  /\ raw = <<>> => cli.returned = <<"1">>
                  /\ raw # <<>> => \E k \in 1..cli.n :
                                       Spells(raw, k) /\ cli.returned = Str(k)
            /\ pc = "reprompt" =>
                  /\ cli.returned = <<>>
                  /\ cli.eof \/ (raw # <<>> /\ \A k \in 1..cli.n : ~Spells(raw, k))

\* "02" has been read as the last line of the input for a menu of five
\* options, and "2" returned
C23_Witness ==
    /\ entry = "prompt_choice"
    /\ pc = "returned"
    /\ cli.n = 5
    /\ cli.line = <<"0", "2">>
    /\ cli.returned = <<"2">>
    /\ cli.stream = <<>>

\* C30: prompt_choice terminates on every input stream: it returns a key (or
\* is interrupted), also when the input has ended.
C30_Terminates ==
    (entry = "prompt_choice") => <>(pc \in {"returned", "raised"})

-----------------------------------------------------------------------------
(* call_claude *)

\* C24: call_claude returns only when the subprocess exited with status 0,
\* its output was not blank, parsed as JSON and held a result that is not
\* empty; it ends otherwise with an OptimizationError and no other
\* exception, never with an empty return value; and for a prompt that is
\* refused the subprocess is not started.
C24_OnlyOptimizationError ==
    entry = "call_claude" =>
        /\ pc = "returned" =>
              /\ cli.result.exception = "none"
              /\ cli.result.returncode = 0
              /\ ~cli.result.stdout.blank
              /\ cli.result.stdout.parses
              /\ cli.result.stdout.result \notin {"missing", "empty string", "null"}
              /\ cli.returned \notin {"nothing", "missing", "empty string", "null"}
        /\ pc = "raised" => raised = "OptimizationError"
        /\ pc # "raised" => raised = "none"
        /\ RejectsPrompt(cli.prompt) => ~cli.started

-----------------------------------------------------------------------------
(* load_config *)

\* every section and every sub-key of the default configuration is there
Complete(config) ==
    /\ config.tag = "map"
    /\ \A s \in SectionNames :
          /\ config.items[s].tag = "map"
          /\ \A i \in 1..Len(SubKeysOf[s]) :
                config.items[s].items[SubKeysOf[s][i]].tag # "missing"

\* what the file says of a sub-key is what the configuration says of it
KeepsFile(file, config) ==
    (file.kind = "parsed" /\ file.value.tag = "map") =>
        \A s \in SectionNames :
            file.value.items[s].tag = "map" =>
                \A k \in SubKeys :
                    file.value.items[s].items[k].tag # "missing" =>
                        /\ config.tag = "map"
                        /\ config.items[s].tag = "map"
                        /\ config.items[s].items[k] = file.value.items[s].items[k]

\* C25: over any sequence of load_config and get calls the file is read at
\* most once and every call returns the same mapping; after the first call
\* every section and sub-key of the defaults is present and no value of the
\* file has been replaced; a missing, unreadable or malformed file gives
\* exactly the defaults.
C25_LoadsAndCaches ==
    entry = "load_config" =>
        /\ cli.reads <= 1
        /\ Cardinality(cli.returned) <= 1
        /\ cli.calls >= 1 =>
              /\ raised = "none"
              /\ Complete(cli._config)
              /\ KeepsFile(cli.file, cli._config)
              /\ cli.file.kind # "parsed" => cli._config = Map(_DEFAULT_CONFIG)

-----------------------------------------------------------------------------
(* the heuristic vector *)

\* C26: the weighted sum of the vector score_tweet returns is strictly
\* negative, so the aggregate is twice the sum and the report of the original
\* holds that doubled value, rounded to two decimals.
C26_HeuristicNegative ==
    (entry = "none" /\ pc \in {"scored", "done"}) =>
        /\ WeightedSum(signals) < 0
        /\ compute_weighted_score(signals, analysis.has_media) = 2 * WeightedSum(signals)
        /\ full_score_report(analysis, analysis.has_media).weighted_score
              = RoundHalfEven(2 * WeightedSum(signals), 1000)

\* the text with the most positive estimate: media, a link, a question,
\* four power words, a call to action, numbers, a list
C26_Witness ==
    /\ entry = "none"
    /\ pc = "scored"
    /\ analysis.has_media
    /\ analysis.has_url
    /\ analysis.has_cta
    /\ analysis.has_numbers
    /\ analysis.has_list_format
    /\ analysis.power_word_count >= 4
    /\ analysis.question_count >= 3
    /\ WeightedSum(signals) < 0

\* the vector in which every signal is certain
AllCertain == [a \in Actions |-> 10000]

\* C27: every value score_tweet returns is strictly between 0 and 1, so the
\* clamp has changed none; hence a comparison of the estimate with any
\* vector, be it the vector of certainties or the estimate itself, marks no
\* signal as new.
C27_StrictlyInside ==
    (entry = "none" /\ pc \in {"scored", "done"}) =>
        /\ \A a \in Actions : 0 < signals[a] /\ signals[a] < 10000
        /\ \A a \in Actions : ~compute_delta(signals, AllCertain)[a].is_new
        /\ pc = "done" => \A a \in Actions : ~comparison.delta[a].is_new

\* a text without media, link, question, power word or number, whose
\* estimate holds the smallest values, has been compared
C27_Witness ==
    /\ entry = "none"
    /\ pc = "done"
    /\ ~analysis.has_media
    /\ ~analysis.has_url
    /\ ~analysis.has_question
    /\ analysis.power_word_count = 0
    /\ signals.photo_expand_score = 500
    /\ comparison.delta.photo_expand_score.original = 500

-----------------------------------------------------------------------------
(* the scorer and the renderers *)

\* C28: every key the renderers read of the original report and of a
\* comparison is a key full_score_report and comparison_report produce.
C28_ReportShape ==
    (entry \in EntryPoints /\ pc = "done") =>
        /\ ReportKeysRead \subseteq DOMAIN report
        /\ comparison # None =>
              /\ ComparisonKeysRead \subseteq DOMAIN comparison
              /\ OptimizedKeysRead \subseteq DOMAIN comparison.optimized

\* C29: in a report of comparison_report, weighted_score_original is
\* original.weighted_score, weighted_score_optimized is
\* optimized.weighted_score, and weighted_score_change is their difference,
\* all in hundredths.
C29_WeightedFields ==
    (entry \in EntryPoints /\ pc \in {"report", "done"} /\ comparison # None) =>
        /\ comparison.weighted_score_original = comparison.original.weighted_score
        /\ comparison.weighted_score_optimized = comparison.optimized.weighted_score
        /\ comparison.weighted_score_change
              = comparison.weighted_score_optimized - comparison.weighted_score_original

====
